---- MODULE Spec2Model ----
(***************************************************************************)
(* Verification model of SkyImage (mtralka/SkyImage).                      *)
(*                                                                         *)
(* The module holds one state machine per component of the package:        *)
(*   SpecMatch     GroundImage.__init__ / __find_matching_image            *)
(*   SpecClassify  f_above_or_below on one (BI, SI) point                  *)
(*   SpecProcess   GroundImage.process / results on a BI/SI image          *)
(*   SpecDecode    decimal_to_binary / slice / binary_to_decimal           *)
(*   SpecScene     SkyScene.process / results on a raw_data window         *)
(*   SpecCorrelate SkyImage.results                                        *)
(*   Spec          SkyControl / GroundControl over a batch of keys         *)
(* All variables are declared once; a specification pins the variables of  *)
(* the other components to their idle values.                              *)
(*                                                                         *)
(* Conventions                                                             *)
(*   - a datetime of the searched calendar day is its second of the day    *)
(*     (0..86399): every file the glob returns carries the target's date;  *)
(*   - BI and SI values are hundredths (0.35 is 35); NaN is a value that   *)
(*     makes every comparison false;                                       *)
(*   - a Python exception is recorded in the component's *_err variable.   *)
(***************************************************************************)
EXTENDS Integers, Sequences, FiniteSets, TLC

VARIABLES
    \* ---- GroundImage construction (matching) ----
    g_pc,                \* "new" | "matched" | "failed"
    direct_arg,          \* constructor argument direct_path (None or a path)
    time_delta_arg,      \* constructor argument time_delta (None or seconds)
    target_time,         \* GroundImage.target_time, second of the day
    matching_file_list,  \* glob result: timestamps, a file's path is its index
    direct_path,         \* GroundImage.direct_path
    actual_time,         \* GroundImage.actual_time
    time_delta,          \* GroundImage.time_delta
    g_warned,            \* a UserWarning was emitted by the search
    g_err,               \* exception raised by the constructor
    \* ---- f_above_or_below on one point ----
    p_pc,                \* "call" | "done"
    p_point,             \* the point <<BI, SI>>
    p_boundary,          \* the decision boundary, a sequence of <<x, y>>
    p_result,            \* the returned label, None when nothing is returned
    p_err,               \* exception raised by the call
    \* ---- GroundImage.process / results ----
    i_pc,                \* "constructed" (no BI, SI yet) | "extracted"
    BI,                  \* GroundImage.BI, rows of hundredths or NaN
    SI,                  \* GroundImage.SI
    BI_stats,            \* GroundImage.BI_stats, <<>> while unset
    SI_stats,            \* GroundImage.SI_stats, <<>> while unset
    n_total,             \* GroundImage.n_total
    prcnt_cld,           \* GroundImage.prcnt_cld, hundredths of a percent
    cloud_mask,          \* the mask built by process, <<>> while not built
    processed,           \* GroundImage.processed
    i_err,               \* exception raised by process()
    i_out,               \* <<dict>> returned by results(), <<>> before
    i_out_err,           \* exception raised by results()
    \* ---- decoding one sub-field of one packed value ----
    d_pc,                \* "call" | "done"
    d_value,             \* the packed value, [hi, lo] 16-bit halves
    d_start,             \* start_bit
    d_end,               \* end_bit
    d_result,            \* <<mapped_decimal>> as [hi, lo], <<>> when none
    d_err,               \* exception raised by the decoding
    \* ---- SkyScene.process / results ----
    raw_data,            \* SkyScene.raw_data: CRGT rows, CRNM and NPA flattened
    s_target,            \* SkyScene.target_time, [hour, minute] of its day
    actual_datetime,     \* SkyScene.actual_datetime, <<>> while unset
    s_data,              \* SkyScene.data, <<>> while unset
    s_processed,         \* SkyScene.processed
    s_err,               \* exception raised by process()
    s_out,               \* <<dict>> returned by results(), <<>> before
    s_out_err,           \* exception raised by results()
    \* ---- SkyImage.results ----
    a_pc,                \* "call" | "done"
    a_has_sky,           \* the SkyImage object has the attribute sky
    a_has_ground,        \* the SkyImage object has the attribute ground
    a_sky,               \* self.sky.scenes, in insertion order
    a_ground,            \* self.ground.images, in insertion order
    a_as_dataframe,      \* argument as_dataframe
    a_save,              \* argument save
    a_out,               \* <<value>> returned, <<>> when none
    a_saved,             \* the combined table was written to a CSV file
    a_err,               \* exception raised by results()
    \* ---- SkyControl and GroundControl over a batch of keys ----
    stds,                \* the requested keys (YYYYDDD), in request order
    sky_input,           \* key -> what the sky archive holds for the key
    ground_input,        \* key -> what the ground archive holds for the key
    k_pc,                \* SkyControl: "new" | "built" | "ran" | "done" | "failed"
    scenes,              \* SkyControl.scenes, in insertion order
    k_err,               \* exception raised by the last SkyControl call
    k_out,               \* <<dict>> returned by SkyControl.results()
    q_pc,                \* GroundControl: as k_pc
    images,              \* GroundControl.images, in insertion order
    q_err,               \* exception raised by the last GroundControl call
    q_out,               \* <<dict>> returned by GroundControl.results(False)
    \* ---- SkyImage.__init__ / run, GroundControl.__init__ from days ----
    r_pc,                \* "new" | "built" | "failed" | "ran" | "run_failed"
    r_kind,              \* "SkyImage" | "GroundControl": the class constructed
    r_j_day,             \* argument j_day: an int, a str, a range 'a-b', a list
    r_year,              \* argument year
    r_target_time,       \* GroundControl argument target_time, <<>> for None
    r_station,           \* GroundControl argument station: "str" | "Station"
    r_coords,            \* GroundControl argument coords is given
    r_archive,           \* what the archives hold for the requested days
    r_stds,              \* self.stds: <<[key, std]>> in insertion order
    r_warned,            \* the default-time UserWarning was emitted
    r_images,            \* GroundControl.images, in insertion order
    r_sky,               \* SkyImage.sky: <<scenes>> once assigned by run()
    r_ground,            \* SkyImage.ground: <<images>> once assigned by run()
    r_err                \* exception raised by the last call

matchVars == <<g_pc, direct_arg, time_delta_arg, target_time, matching_file_list,
               direct_path, actual_time, time_delta, g_warned, g_err>>

pointVars == <<p_pc, p_point, p_boundary, p_result, p_err>>

imageVars == <<i_pc, BI, SI, BI_stats, SI_stats, n_total, prcnt_cld, cloud_mask,
               processed, i_err, i_out, i_out_err>>

decodeVars == <<d_pc, d_value, d_start, d_end, d_result, d_err>>

sceneVars == <<raw_data, s_target, actual_datetime, s_data, s_processed, s_err,
               s_out, s_out_err>>

appVars == <<a_pc, a_has_sky, a_has_ground, a_sky, a_ground, a_as_dataframe,
             a_save, a_out, a_saved, a_err>>

batchVars == <<stds, sky_input, ground_input, k_pc, scenes, k_err, k_out,
               q_pc, images, q_err, q_out>>

requestVars == <<r_pc, r_kind, r_j_day, r_year, r_target_time, r_station,
                 r_coords, r_archive, r_stds, r_warned, r_images, r_sky,
                 r_ground, r_err>>

vars == <<matchVars, pointVars, imageVars, decodeVars, sceneVars, appVars,
          batchVars, requestVars>>

\* what an action of one component leaves alone
otherThanMatch ==
    <<pointVars, imageVars, decodeVars, sceneVars, appVars, batchVars,
      requestVars>>
otherThanPoint ==
    <<matchVars, imageVars, decodeVars, sceneVars, appVars, batchVars,
      requestVars>>
otherThanImage ==
    <<matchVars, pointVars, decodeVars, sceneVars, appVars, batchVars,
      requestVars>>
otherThanDecode ==
    <<matchVars, pointVars, imageVars, sceneVars, appVars, batchVars,
      requestVars>>
otherThanScene ==
    <<matchVars, pointVars, imageVars, decodeVars, appVars, batchVars,
      requestVars>>
otherThanApp ==
    <<matchVars, pointVars, imageVars, decodeVars, sceneVars, batchVars,
      requestVars>>
otherThanRequest ==
    <<matchVars, pointVars, imageVars, decodeVars, sceneVars, appVars, batchVars>>
otherThanBatch ==
    <<matchVars, pointVars, imageVars, decodeVars, sceneVars, appVars,
      requestVars>>

----------------------------------------------------------------------------
(* Shared helpers *)

None == -1

Abs(n) == IF n < 0 THEN -n ELSE n

Range(s) == {s[i] : i \in DOMAIN s}

SeqsUpTo(S, n) == UNION {[1..k -> S] : k \in 0..n}

----------------------------------------------------------------------------
(* Idle values: the variables of a component a specification does not run *)

\* np.nan: every ordering comparison with it is False
NaN == 9999

IdleMatch ==
    /\ g_pc = "idle"
    /\ direct_arg = None
    /\ time_delta_arg = None
    /\ target_time = 0
    /\ matching_file_list = <<>>
    /\ direct_path = None
    /\ actual_time = None
    /\ time_delta = None
    /\ g_warned = FALSE
    /\ g_err = "none"

IdlePoint ==
    /\ p_pc = "idle"
    /\ p_point = <<0, 0>>
    /\ p_boundary = <<>>
    /\ p_result = None
    /\ p_err = "none"

\* an attribute that is declared but not assigned yet
Unset == -999999

IdleImage ==
    /\ i_pc = "idle"
    /\ BI = <<>>
    /\ SI = <<>>
    /\ BI_stats = <<>>
    /\ SI_stats = <<>>
    /\ n_total = Unset
    /\ prcnt_cld = Unset
    /\ cloud_mask = <<>>
    /\ processed = FALSE
    /\ i_err = "none"
    /\ i_out = <<>>
    /\ i_out_err = "none"

IdleDecode ==
    /\ d_pc = "idle"
    /\ d_value = [hi |-> 0, lo |-> 0]
    /\ d_start = 0
    /\ d_end = 0
    /\ d_result = <<>>
    /\ d_err = "none"

IdleScene ==
    /\ raw_data = <<>>
    /\ s_target = [hour |-> 0, minute |-> 0]
    /\ actual_datetime = <<>>
    /\ s_data = <<>>
    /\ s_processed = FALSE
    /\ s_err = "none"
    /\ s_out = <<>>
    /\ s_out_err = "none"

IdleApp ==
    /\ a_pc = "idle"
    /\ a_has_sky = FALSE
    /\ a_has_ground = FALSE
    /\ a_sky = <<>>
    /\ a_ground = <<>>
    /\ a_as_dataframe = FALSE
    /\ a_save = FALSE
    /\ a_out = <<>>
    /\ a_saved = FALSE
    /\ a_err = "none"

IdleBatch ==
    /\ stds = <<>>
    /\ sky_input = <<>>
    /\ ground_input = <<>>
    /\ k_pc = "idle"
    /\ scenes = <<>>
    /\ k_err = "none"
    /\ k_out = <<>>
    /\ q_pc = "idle"
    /\ images = <<>>
    /\ q_err = "none"
    /\ q_out = <<>>

IdleRequest ==
    /\ r_pc = "idle"
    /\ r_kind = "none"
    /\ r_j_day = <<>>
    /\ r_year = 0
    /\ r_target_time = <<>>
    /\ r_station = "none"
    /\ r_coords = FALSE
    /\ r_archive = "none"
    /\ r_stds = <<>>
    /\ r_warned = FALSE
    /\ r_images = <<>>
    /\ r_sky = <<>>
    /\ r_ground = <<>>
    /\ r_err = "none"

----------------------------------------------------------------------------
(* f_above_or_below (stations/Ground/utils/image.py) *)

Lt(a, b) == a # NaN /\ b # NaN /\ a < b
Gt(a, b) == a # NaN /\ b # NaN /\ a > b

\* x_step / y_step of GroundImage.process, in hundredths
x_step == <<0, 10, 35, 70, 80, 100>>
y_step == <<100, 60, 35, 15, 10, 0>>

\* np.column_stack((x_step, y_step))
column_stack(xs, ys) == [i \in DOMAIN xs |-> <<xs[i], ys[i]>>]

CanonicalBoundary == column_stack(x_step, y_step)

\* other boundaries sorted by descending y: x not monotone, equal y values
Boundaries ==
    { CanonicalBoundary,
      << <<50, 80>>, <<20, 80>>, <<90, 35>>, <<35, 5>> >>,
      << <<10, 50>> >> }

\* np.min / np.max of the x column (no NaN in a boundary)
np_min(S) == CHOOSE m \in S : \A e \in S : m <= e
np_max(S) == CHOOSE m \in S : \A e \in S : m >= e

XColumn(boundary) == {boundary[i][1] : i \in DOMAIN boundary}

\* variant of the for loop without the break: the last vertex with
\* p[1] > boundary[i, 1]
RECURSIVE ScanBoundaryLast(_, _, _)
ScanBoundaryLast(p, boundary, i) ==
    IF i > Len(boundary)
    THEN 0
    ELSE LET later == ScanBoundaryLast(p, boundary, i + 1)
         IN IF later # 0 THEN later
            ELSE IF Gt(p[2], boundary[i][2]) THEN i ELSE 0

\* the for loop: index of the first vertex with p[1] > boundary[i, 1];
\* 0 stands for idx = None
RECURSIVE ScanBoundary(_, _, _)
ScanBoundary(p, boundary, i) ==
    IF i > Len(boundary)
    THEN 0
    ELSE IF Gt(p[2], boundary[i][2])
         THEN i
         ELSE ScanBoundary(p, boundary, i + 1)

\* variant: the point's x equal to the vertex's x counts as 0
f_above_or_below_tie_low(p, boundary) ==
    IF Lt(p[1], np_min(XColumn(boundary))) \/ Gt(p[1], np_max(XColumn(boundary)))
    THEN [raised |-> "ValueError", value |-> None]
    ELSE LET idx == ScanBoundary(p, boundary, 1)
         IN IF idx = 0
            THEN [raised |-> "none", value |-> 0]
            ELSE IF ~ Gt(p[1], boundary[idx][1])
                 THEN [raised |-> "none", value |-> 0]
                 ELSE [raised |-> "none", value |-> 1]

\* variant: the end points of the x range are outside the domain
f_above_or_below_open_domain(p, boundary) ==
    IF ~ Gt(p[1], np_min(XColumn(boundary))) \/ ~ Lt(p[1], np_max(XColumn(boundary)))
    THEN [raised |-> "ValueError", value |-> None]
    ELSE LET idx == ScanBoundary(p, boundary, 1)
         IN IF idx = 0
            THEN [raised |-> "none", value |-> 0]
            ELSE IF Lt(p[1], boundary[idx][1])
                 THEN [raised |-> "none", value |-> 0]
                 ELSE [raised |-> "none", value |-> 1]

\* f_above_or_below(p, boundary): the exception raised and the value returned
f_above_or_below(p, boundary) ==
    IF Lt(p[1], np_min(XColumn(boundary))) \/ Gt(p[1], np_max(XColumn(boundary)))
    THEN [raised |-> "ValueError", value |-> None]
    ELSE LET idx == ScanBoundary(p, boundary, 1)
         IN IF idx = 0
            THEN [raised |-> "none", value |-> 0]
            ELSE IF Lt(p[1], boundary[idx][1])
                 THEN [raised |-> "none", value |-> 0]
                 ELSE [raised |-> "none", value |-> 1]

PointXs == {-1, 0, 5, 10, 20, 35, 50, 70, 75, 80, 90, 100, 101, NaN}
PointYs == {-10, 0, 5, 12, 15, 20, 35, 50, 80, 100, 120, NaN}

InitPoint ==
    /\ p_pc = "call"
    /\ p_point \in PointXs \X PointYs
    /\ p_boundary \in Boundaries
    /\ p_result = None
    /\ p_err = "none"

Classify ==
    /\ p_pc = "call"
    /\ LET r == f_above_or_below(p_point, p_boundary)
       IN /\ p_result' = r.value
          /\ p_err' = r.raised
    /\ p_pc' = "done"
    /\ UNCHANGED <<p_point, p_boundary>>
    /\ UNCHANGED otherThanPoint

----------------------------------------------------------------------------
(* GroundImage.__init__ and __find_matching_image *)

\* bounds of the matching model
MaxFiles == 3

SecondsPerDay == 86400
DefaultSeconds == 86400
WarnSeconds == 7200

\* target instants: 12:00:00 and 00:10:00
TargetTimes == {43200, 600}

\* offsets (seconds) of the candidate files from the target instant
FileOffsets == {-7201, -50, -10, 0, 10, 50, 7200, 7201}

\* timestamps of files of the target's calendar day
FileTimes(t) == {t + d : d \in FileOffsets} \cap (0..(SecondsPerDay - 1))

\* (a - b).seconds: a timedelta is normalised to days (which carry the sign)
\* and 0 <= seconds < 86400
TimedeltaSeconds(a, b) == (a - b) % SecondsPerDay

\* STDDelta()
STDDelta == [std |-> None, seconds |-> DefaultSeconds, path |-> None]

\* STDDelta.min_resolver
min_resolver(self, std, seconds, file_path) ==
    IF seconds >= self.seconds
    THEN self
    ELSE [std |-> std, seconds |-> seconds, path |-> file_path]

\* the for loop of __find_matching_image from file i on
RECURSIVE ScanFiles(_, _, _, _)
ScanFiles(time_resolver, files, i, target) ==
    IF i > Len(files)
    THEN time_resolver
    ELSE ScanFiles(min_resolver(time_resolver, files[i],
                                TimedeltaSeconds(files[i], target), i),
                   files, i + 1, target)

\* GroundImage.time_delta()
time_delta_method(actual, target) == TimedeltaSeconds(actual, target)

InitMatch ==
    /\ g_pc = "new"
    /\ direct_arg \in {None, 1}
    /\ time_delta_arg \in {None, 30}
    /\ target_time \in TargetTimes
    /\ matching_file_list \in SeqsUpTo(FileTimes(target_time), MaxFiles)
    /\ (direct_arg = None => time_delta_arg = None)
    /\ (direct_arg # None => matching_file_list = <<>>)
    /\ direct_path = None
    /\ actual_time = None
    /\ time_delta = None
    /\ g_warned = FALSE
    /\ g_err = "none"

\* __find_matching_image as the exception it raises and the attributes it sets
find_matching_image(target, files) ==
    IF files = <<>>
    THEN [raised |-> "FileNotFoundError"]
    ELSE LET time_resolver == ScanFiles(STDDelta, files, 1, target)
         IN [raised |-> "none",
             warned |-> (time_resolver.seconds > WarnSeconds),
             direct_path |-> time_resolver.path,
             actual_time |-> time_resolver.std,
             time_delta |-> time_resolver.seconds]

\* __init__ without direct_path: __find_matching_image(target_time, ...)
FindMatchingImage ==
    /\ g_pc = "new"
    /\ direct_arg = None
    /\ LET m == find_matching_image(target_time, matching_file_list)
       IN IF m.raised # "none"
          THEN /\ g_pc' = "failed"
               /\ g_err' = m.raised
               /\ UNCHANGED <<direct_path, actual_time, time_delta, g_warned>>
          ELSE /\ g_warned' = m.warned
               /\ direct_path' = m.direct_path
               /\ actual_time' = m.actual_time
               /\ time_delta' = m.time_delta
               /\ g_pc' = "matched"
               /\ UNCHANGED g_err
    /\ UNCHANGED <<direct_arg, time_delta_arg, target_time, matching_file_list>>
    /\ UNCHANGED otherThanMatch

\* __init__ with direct_path: no search; time_delta() reads actual_time,
\* which this branch never sets
InitDirect ==
    /\ g_pc = "new"
    /\ direct_arg # None
    /\ direct_path' = direct_arg
    /\ IF time_delta_arg = None
       THEN /\ g_pc' = "failed"
            /\ g_err' = "AttributeError"
            /\ UNCHANGED time_delta
       ELSE /\ g_pc' = "matched"
            /\ time_delta' = time_delta_arg
            /\ UNCHANGED g_err
    /\ UNCHANGED <<direct_arg, time_delta_arg, target_time, matching_file_list,
                   actual_time, g_warned>>
    /\ UNCHANGED otherThanMatch

----------------------------------------------------------------------------
(* GroundImage.process and GroundImage.results *)

\* bounds of the image model
MaxRows == 2
MaxCols == 2

\* (BI, SI) pairs extract() can produce: BI in (0, 1], SI in (-1, 1); a
\* masked or zero pixel is NaN in both; a pixel whose G alone is 0 has
\* BI = NaN and a valid SI
PixelChoices ==
    { <<50, 50>>, <<20, 50>>, <<35, 50>>, <<50, -20>>, <<NaN, NaN>>, <<NaN, 50>> }

\* round(x, 2) of the quotient num / den of hundredths, den > 0: the nearest
\* integer number of hundredths, a tie going to the even one
RoundHalfEven(num, den) ==
    LET q == num \div den
        r == num - q * den
    IN IF 2 * r < den THEN q
       ELSE IF 2 * r > den THEN q + 1
       ELSE IF q % 2 = 0 THEN q ELSE q + 1

RECURSIVE SeqSum(_)
SeqSum(s) == IF s = <<>> THEN 0 ELSE Head(s) + SeqSum(Tail(s))

RECURSIVE SeqMax(_)
SeqMax(s) ==
    IF Len(s) = 1 THEN s[1]
    ELSE LET m == SeqMax(Tail(s)) IN IF s[1] > m THEN s[1] ELSE m

RECURSIVE SeqMin(_)
SeqMin(s) ==
    IF Len(s) = 1 THEN s[1]
    ELSE LET m == SeqMin(Tail(s)) IN IF s[1] < m THEN s[1] ELSE m

\* ndarray.flatten(): row-major
RECURSIVE flatten(_)
flatten(rows) == IF rows = <<>> THEN <<>> ELSE Head(rows) \o flatten(Tail(rows))

\* variant of the reshape: the list fills the array column by column
reshape_column_major(flat, h, w) ==
    [r \in 1..h |-> [c \in 1..w |-> flat[(c - 1) * h + r]]]

\* np.array(list).reshape((h, w))
reshape(flat, h, w) == [r \in 1..h |-> [c \in 1..w |-> flat[(r - 1) * w + c]]]

NotNaN(s) == SelectSeq(s, LAMBDA v : v # NaN)

\* __extract_stats: an all-NaN array gives NaN (with a RuntimeWarning)
extract_stats(array) ==
    LET valid == NotNaN(flatten(array))
    IN IF valid = <<>>
       THEN [mean |-> NaN, max |-> NaN, min |-> NaN]
       ELSE [mean |-> RoundHalfEven(SeqSum(valid), Len(valid)),
             max |-> SeqMax(valid),
             min |-> SeqMin(valid)]

\* variant of the loop: number_clear counts the points labelled 0
RECURSIVE ClassifyPointsCountZero(_, _, _, _)
ClassifyPointsCountZero(points, i, mask, number_clear) ==
    IF i > Len(points)
    THEN [raised |-> "none", mask |-> mask, number_clear |-> number_clear]
    ELSE LET results == f_above_or_below(points[i], CanonicalBoundary)
         IN IF results.raised # "none"
            THEN [raised |-> results.raised, mask |-> mask,
                  number_clear |-> number_clear]
            ELSE ClassifyPointsCountZero(points, i + 1,
                                         Append(mask, results.value),
                                         number_clear + (1 - results.value))

\* the for loop over BI_SI_points from point i on: the mask so far, the
\* running number_clear, and the exception that ended the loop
RECURSIVE ClassifyPoints(_, _, _, _)
ClassifyPoints(points, i, mask, number_clear) ==
    IF i > Len(points)
    THEN [raised |-> "none", mask |-> mask, number_clear |-> number_clear]
    ELSE LET results == f_above_or_below(points[i], CanonicalBoundary)
         IN IF results.raised # "none"
            THEN [raised |-> results.raised, mask |-> mask,
                  number_clear |-> number_clear]
            ELSE ClassifyPoints(points, i + 1, Append(mask, results.value),
                                number_clear + results.value)

\* the body of process() after the hasattr check, as the values it computes
ProcessImage(bi, si) ==
    LET BI_SI_points == column_stack(flatten(bi), flatten(si))
        \* twice pixel_total: the number of non-NaN entries of BI_SI_points
        entries == Len(NotNaN(flatten(bi))) + Len(NotNaN(flatten(si)))
        loop == ClassifyPoints(BI_SI_points, 1, <<>>, 0)
    IN IF loop.raised # "none"
       THEN [raised |-> loop.raised]
       ELSE IF entries = 0
            THEN [raised |-> "ZeroDivisionError"]
            ELSE [raised |-> "none",
                  BI_stats |-> extract_stats(bi),
                  SI_stats |-> extract_stats(si),
                  cloud_mask |-> reshape(loop.mask, Len(bi), Len(bi[1])),
                  n_total |-> entries \div 2,
                  prcnt_cld |-> RoundHalfEven(
                                    (entries - 2 * loop.number_clear) * 10000,
                                    entries)]

InitImage ==
    /\ i_pc \in {"constructed", "extracted"}
    /\ IF i_pc = "constructed"
       THEN BI = <<>> /\ SI = <<>>
       ELSE \E h \in 1..MaxRows, w \in 1..MaxCols :
                \E img \in [1..h -> [1..w -> PixelChoices]] :
                    /\ BI = [r \in 1..h |-> [c \in 1..w |-> img[r][c][1]]]
                    /\ SI = [r \in 1..h |-> [c \in 1..w |-> img[r][c][2]]]
    /\ BI_stats = <<>>
    /\ SI_stats = <<>>
    /\ n_total = Unset
    /\ prcnt_cld = Unset
    /\ cloud_mask = <<>>
    /\ processed = FALSE
    /\ i_err = "none"
    /\ i_out = <<>>
    /\ i_out_err = "none"

\* variant of process(): processed is set before the work is done
ProcessMarksFirst ==
    /\ ~ processed
    /\ i_err = "none"
    /\ processed' = TRUE
    /\ IF i_pc = "constructed"
       THEN /\ i_err' = "ValueError"
            /\ UNCHANGED <<BI_stats, SI_stats, n_total, prcnt_cld, cloud_mask>>
       ELSE LET r == ProcessImage(BI, SI)
            IN IF r.raised # "none"
               THEN /\ i_err' = r.raised
                    /\ UNCHANGED <<BI_stats, SI_stats, n_total, prcnt_cld,
                                   cloud_mask>>
               ELSE /\ BI_stats' = <<r.BI_stats>>
                    /\ SI_stats' = <<r.SI_stats>>
                    /\ n_total' = r.n_total
                    /\ prcnt_cld' = r.prcnt_cld
                    /\ cloud_mask' = r.cloud_mask
                    /\ UNCHANGED i_err
    /\ UNCHANGED <<i_pc, BI, SI, i_out, i_out_err>>
    /\ UNCHANGED otherThanImage

\* GroundImage.process(); show_image and save_image are False, as they are
\* after an extract() that returned
Process ==
    /\ ~ processed
    /\ i_err = "none"
    /\ IF i_pc = "constructed"
       THEN /\ i_err' = "ValueError"
            /\ UNCHANGED <<BI_stats, SI_stats, n_total, prcnt_cld, cloud_mask,
                           processed>>
       ELSE LET r == ProcessImage(BI, SI)
            IN IF r.raised # "none"
               THEN /\ i_err' = r.raised
                    /\ UNCHANGED <<BI_stats, SI_stats, n_total, prcnt_cld,
                                   cloud_mask, processed>>
               ELSE /\ BI_stats' = <<r.BI_stats>>
                    /\ SI_stats' = <<r.SI_stats>>
                    /\ n_total' = r.n_total
                    /\ prcnt_cld' = r.prcnt_cld
                    /\ cloud_mask' = r.cloud_mask
                    /\ processed' = TRUE
                    /\ UNCHANGED i_err
    /\ UNCHANGED <<i_pc, BI, SI, i_out, i_out_err>>
    /\ UNCHANGED otherThanImage

\* GroundImage.results(as_dataframe=False)
Results ==
    /\ i_out = <<>>
    /\ i_out_err = "none"
    /\ IF ~ processed
       THEN /\ i_out_err' = "AssertionError"
            /\ UNCHANGED i_out
       ELSE /\ i_out' = << [BI |-> BI_stats[1], SI |-> SI_stats[1],
                            n_total |-> n_total, prcnt_cld |-> prcnt_cld] >>
            /\ UNCHANGED i_out_err
    /\ UNCHANGED <<i_pc, BI, SI, BI_stats, SI_stats, n_total, prcnt_cld,
                   cloud_mask, processed, i_err>>
    /\ UNCHANGED otherThanImage

----------------------------------------------------------------------------
(* decimal_to_binary, the slice of SkyScene.process, binary_to_decimal *)

(* A packed value is an unsigned 32-bit integer.  It is held as two 16-bit    *)
(* halves, value = hi * 2^16 + lo.  A binary string is a sequence of bits,    *)
(* most significant first.                                                    *)

\* width of the format specification :032
BitWidth == 32

HalfWidth == BitWidth \div 2

\* largest bit index of the ranges tried; indices from BitWidth on are
\* outside the string
MaxBit == 33

\* halves of the packed values tried: 0x0000 0x0001 0x00FF 0x0100 0x8000
\* 0xA5C3 0xFFFF
HalfChoices == {0, 1, 255, 256, 32768, 42435, 65535}

Pow2(n) == 2 ^ n

\* the HalfWidth bits of h, most significant first
HalfBits(h) == [i \in 1..HalfWidth |-> (h \div Pow2(HalfWidth - i)) % 2]

\* the value of at most HalfWidth bits
RECURSIVE BitsValue(_)
BitsValue(bits) ==
    IF bits = <<>> THEN 0
    ELSE 2 * BitsValue(SubSeq(bits, 1, Len(bits) - 1)) + bits[Len(bits)]

\* str(bin(decimal))[2:] : the binary digits without leading zeros
RECURSIVE StripLeadingZeros(_)
StripLeadingZeros(bits) ==
    IF Len(bits) > 1 /\ bits[1] = 0 THEN StripLeadingZeros(Tail(bits)) ELSE bits

bin(v) == StripLeadingZeros(HalfBits(v.hi) \o HalfBits(v.lo))

\* f"{int(binary):032}": zero-padded on the left to BitWidth characters
ZeroPad(digits) ==
    IF Len(digits) >= BitWidth
    THEN digits
    ELSE [i \in 1..(BitWidth - Len(digits)) |-> 0] \o digits

\* decimal_to_binary
decimal_to_binary(decimal) == ZeroPad(bin(decimal))

\* Python's s[start:stop:1]: a negative index counts from the end, indices
\* are clamped to 0..len(s)
ClampIndex(i, n) ==
    LET j == IF i < 0 THEN i + n ELSE i
    IN IF j < 0 THEN 0 ELSE IF j > n THEN n ELSE j

Slice(str, start, stop) ==
    LET a == ClampIndex(start, Len(str))
        b == ClampIndex(stop, Len(str))
    IN IF a >= b THEN <<>> ELSE SubSeq(str, a + 1, b)

\* binary_to_decimal: int(binary, 2); int('', 2) raises ValueError
binary_to_decimal(binary) ==
    IF binary = <<>>
    THEN [raised |-> "ValueError", value |-> <<>>]
    ELSE LET n == Len(binary)
             low == IF n > HalfWidth THEN SubSeq(binary, n - HalfWidth + 1, n)
                    ELSE binary
             high == IF n > HalfWidth THEN SubSeq(binary, 1, n - HalfWidth)
                     ELSE <<>>
         IN [raised |-> "none",
             value |-> << [hi |-> BitsValue(high), lo |-> BitsValue(low)] >>]

\* variant of the slice bounds: the range counted from the most significant bit
MappedOctetFromTop(binary, start_bit, end_bit) ==
    Slice(binary, start_bit, end_bit + 1)

\* lines 295-298: the characters of the bit range start_bit..end_bit
MappedOctet(binary, start_bit, end_bit) ==
    LET end_i == Len(binary) - start_bit
        start_i == end_i - (end_bit - start_bit) - 1
    IN Slice(binary, start_i, end_i)

\* the decoding of one sub-field of one pixel
DecodeField(pixel, start_bit, end_bit) ==
    binary_to_decimal(MappedOctet(decimal_to_binary(pixel), start_bit, end_bit))

Packed == [hi : HalfChoices, lo : HalfChoices]

InitDecode ==
    /\ d_pc = "call"
    /\ d_value \in Packed
    /\ d_start \in 0..MaxBit
    /\ d_end \in d_start..MaxBit
    /\ d_result = <<>>
    /\ d_err = "none"

Decode ==
    /\ d_pc = "call"
    /\ LET r == DecodeField(d_value, d_start, d_end)
       IN /\ d_result' = r.value
          /\ d_err' = r.raised
    /\ d_pc' = "done"
    /\ UNCHANGED <<d_value, d_start, d_end>>
    /\ UNCHANGED otherThanDecode

----------------------------------------------------------------------------
(* SkyScene.process and SkyScene.results *)

\* bound of the scene model: pixels of the window read by extract()
MaxScenePixels == 3

\* variant of the table: CLD_SHDW is "7-14"
NUM_MAPPINGS_overlapping ==
    << [k |-> "CLD", start_bit |-> 0, end_bit |-> 7, prcnt_k |-> "prcnt_CLD"],
       [k |-> "CLD_SHDW", start_bit |-> 7, end_bit |-> 14,
        prcnt_k |-> "prcnt_CLD_SHDW"],
       [k |-> "ADJ_CLD", start_bit |-> 16, end_bit |-> 23,
        prcnt_k |-> "prcnt_ADJ_CLD"],
       [k |-> "SNW", start_bit |-> 24, end_bit |-> 31, prcnt_k |-> "prcnt_SNW"] >>

\* MODIS.NUM_MAPPINGS, each "a-b" already split into start_bit, end_bit;
\* prcnt_k is the key f"prcnt_{k}" of the percentage
NUM_MAPPINGS ==
    << [k |-> "CLD", start_bit |-> 0, end_bit |-> 7, prcnt_k |-> "prcnt_CLD"],
       [k |-> "CLD_SHDW", start_bit |-> 8, end_bit |-> 15,
        prcnt_k |-> "prcnt_CLD_SHDW"],
       [k |-> "ADJ_CLD", start_bit |-> 16, end_bit |-> 23,
        prcnt_k |-> "prcnt_ADJ_CLD"],
       [k |-> "SNW", start_bit |-> 24, end_bit |-> 31, prcnt_k |-> "prcnt_SNW"] >>

FieldNames == {NUM_MAPPINGS[m].k : m \in DOMAIN NUM_MAPPINGS}

PrcntNames == {NUM_MAPPINGS[m].prcnt_k : m \in DOMAIN NUM_MAPPINGS}

MappingOf(name) ==
    CHOOSE m \in DOMAIN NUM_MAPPINGS :
        NUM_MAPPINGS[m].k = name \/ NUM_MAPPINGS[m].prcnt_k = name

\* float results of a division by a numpy zero
Inf == 2000000000
FloatNaN == 2000000001

\* packed CRNM values tried: 0x00000000 0x01020304 0xFF0000FF 0xFFFFFFFF
ScenePixels ==
    { [hi |-> 0, lo |-> 0], [hi |-> 258, lo |-> 772],
      [hi |-> 65280, lo |-> 255], [hi |-> 65535, lo |-> 65535] }

\* "n pixels averaged" values tried
NPAChoices == {0, 200}

\* CRGT windows tried (rows of granule times HHMM held as numbers)
CRGTChoices ==
    { << <<1030, 1030>>, <<1030, 1030>> >>,
      << <<930, 930>>, <<930, 930>> >>,
      << <<5, 1210>>, <<5, 1030>> >> }

\* the decimal digits of str(n), n >= 0
RECURSIVE str(_)
str(n) == IF n < 10 THEN <<n>> ELSE Append(str(n \div 10), n % 10)

\* int(s) of a string of decimal digits; int('') raises ValueError
RECURSIVE DigitsValue(_)
DigitsValue(s) ==
    IF s = <<>> THEN 0
    ELSE 10 * DigitsValue(SubSeq(s, 1, Len(s) - 1)) + s[Len(s)]

\* stats.mode(a)[0][0][0]: mode along axis 0, the smallest of the most
\* frequent values of the first column
Count(col, v) == Cardinality({i \in DOMAIN col : col[i] = v})

ModeFirstColumn(a) ==
    LET col == [r \in DOMAIN a |-> a[r][1]]
        best == {v \in Range(col) : \A w \in Range(col) : Count(col, v) >= Count(col, w)}
    IN CHOOSE v \in best : \A w \in best : v <= w

\* lines 275-281: time_mode and target_time.replace(hour=..., minute=...)
GranuleTime(crgt) ==
    LET time_mode == str(ModeFirstColumn(crgt))
        hh == Slice(time_mode, 0, 2)
        mm == Slice(time_mode, 2, Len(time_mode))
    IN IF hh = <<>> \/ mm = <<>>
       THEN [raised |-> "ValueError", time_utc |-> time_mode]
       ELSE IF DigitsValue(hh) > 23 \/ DigitsValue(mm) > 59
            THEN [raised |-> "ValueError", time_utc |-> time_mode]
            ELSE [raised |-> "none", time_utc |-> time_mode,
                  hour |-> DigitsValue(hh), minute |-> DigitsValue(mm)]

\* the number a decoded sub-field stands for
AsInt(v) == v.hi * Pow2(HalfWidth) + v.lo

\* variant of the accumulation: the sub-field value replaces the total
AccumulateOverwrite(processed_dict, k, mapped_decimal) ==
    [processed_dict EXCEPT ![k] = mapped_decimal]

\* line 301: processed_dict[k] = mapped_decimal + processed_dict.get(k, 0)
Accumulate(processed_dict, k, mapped_decimal) ==
    [processed_dict EXCEPT ![k] = mapped_decimal + processed_dict[k]]

\* the inner loop over num_mappings for one pixel, from mapping m on
RECURSIVE DecodePixel(_, _, _)
DecodePixel(processed_dict, pixel, m) ==
    IF m > Len(NUM_MAPPINGS)
    THEN processed_dict
    ELSE LET f == NUM_MAPPINGS[m]
             mapped == DecodeField(pixel, f.start_bit, f.end_bit)
         IN DecodePixel(Accumulate(processed_dict, f.k, AsInt(mapped.value[1])),
                        pixel, m + 1)

\* the loop over crnm from pixel i on; a key absent from processed_dict is
\* held as 0, the default of .get(k, 0)
RECURSIVE DecodeAccumulate(_, _, _)
DecodeAccumulate(processed_dict, crnm, i) ==
    IF i > Len(crnm)
    THEN processed_dict
    ELSE DecodeAccumulate(DecodePixel(processed_dict, crnm[i], 1), crnm, i + 1)

\* round((n_present_pixels / avg_pixel_total) * 100, 2), in hundredths of a
\* percent; avg_pixel_total is a numpy scalar, so a zero one gives inf or nan
\* (and a RuntimeWarning), not an exception
PercentOfTotal(n_present_pixels, avg_pixel_total) ==
    IF avg_pixel_total = 0
    THEN IF n_present_pixels = 0 THEN FloatNaN ELSE Inf
    ELSE RoundHalfEven(n_present_pixels * 10000, avg_pixel_total)

\* process() as the values it computes
ProcessScene(raw) ==
    LET t == GranuleTime(raw.CRGT)
        avg_pixel_total == SeqSum(raw.NPA)
        sums == DecodeAccumulate([k \in FieldNames |-> 0], raw.CRNM, 1)
    IN IF t.raised # "none"
       THEN [raised |-> t.raised]
       ELSE [raised |-> "none",
             hour |-> t.hour,
             minute |-> t.minute,
             data |-> [c \in {"time_utc", "n_TOTAL"} \cup FieldNames \cup PrcntNames |->
                          IF c = "time_utc" THEN t.time_utc
                          ELSE IF c = "n_TOTAL" THEN avg_pixel_total
                          ELSE IF c \in FieldNames THEN sums[c]
                          ELSE PercentOfTotal(sums[NUM_MAPPINGS[MappingOf(c)].k],
                                              avg_pixel_total)]]

InitScene ==
    /\ \E n \in 1..MaxScenePixels :
           \E crnm \in [1..n -> ScenePixels], npa \in [1..n -> NPAChoices],
              crgt \in CRGTChoices :
               raw_data = [CRGT |-> crgt, CRNM |-> crnm, NPA |-> npa]
    /\ s_target = [hour |-> 0, minute |-> 0]
    /\ actual_datetime = <<>>
    /\ s_data = <<>>
    /\ s_processed = FALSE
    /\ s_err = "none"
    /\ s_out = <<>>
    /\ s_out_err = "none"

\* SkyScene.process(): extract() has stored every essential layer
SceneProcess ==
    /\ raw_data # <<>>
    /\ ~ s_processed
    /\ s_err = "none"
    /\ LET r == ProcessScene(raw_data)
       IN IF r.raised # "none"
          THEN /\ s_err' = r.raised
               /\ UNCHANGED <<actual_datetime, s_data, s_processed>>
          ELSE /\ actual_datetime' =
                       << [s_target EXCEPT !.hour = r.hour, !.minute = r.minute] >>
               /\ s_processed' = TRUE
               /\ s_data' = <<r.data>>
               /\ UNCHANGED s_err
    /\ UNCHANGED <<raw_data, s_target, s_out, s_out_err>>
    /\ UNCHANGED otherThanScene

\* SkyScene.results(as_dataframe=False)
SceneResults ==
    /\ raw_data # <<>>
    /\ s_out = <<>>
    /\ s_out_err = "none"
    /\ IF ~ s_processed
       THEN /\ s_out_err' = "AssertionError"
            /\ UNCHANGED s_out
       ELSE /\ s_out' = s_data
            /\ UNCHANGED s_out_err
    /\ UNCHANGED <<raw_data, s_target, actual_datetime, s_data, s_processed, s_err>>
    /\ UNCHANGED otherThanScene

----------------------------------------------------------------------------
(* SkyControl.results, GroundControl.results, SkyImage.results *)

\* observation keys YYYYDDD
Keys == {2020100, 2020101, 2020102}

\* bound: objects held by one control in the correlation model
MaxObjects == 2

\* sequences of distinct elements of S of length at most n
DistinctSeqs(S, n) ==
    {q \in SeqsUpTo(S, n) : \A i, j \in DOMAIN q : i # j => q[i] # q[j]}

\* a window extract() may have read: granule time 10:30
SampleRaw ==
    [CRGT |-> << <<1030, 1030>>, <<1030, 1030>> >>,
     CRNM |-> << [hi |-> 258, lo |-> 772], [hi |-> 0, lo |-> 0] >>,
     NPA |-> <<200, 200>>]

\* a window whose granule time 09:30 reads "930"
EarlyRaw == [SampleRaw EXCEPT !.CRGT = << <<930, 930>>, <<930, 930>> >>]

\* BI and SI extract() may have computed
SampleBI == << <<50, 20>> >>
SampleSI == << <<50, 50>> >>

\* BI and SI of an image whose pixels are all masked
MaskedBI == << <<NaN, NaN>> >>
MaskedSI == << <<NaN, NaN>> >>

\* the dict GroundImage.results() returns
GroundResultsDict(r) ==
    [c \in {"BI", "SI", "n_total", "prcnt_cld"} |->
        IF c = "BI" THEN r.BI_stats
        ELSE IF c = "SI" THEN r.SI_stats
        ELSE IF c = "n_total" THEN r.n_total
        ELSE r.prcnt_cld]

\* SkyControl.results / GroundControl.results(as_dataframe=False): the
\* results of every object under its j_day_full, or the AssertionError of
\* the first object that is not processed.  The keys of a control's objects
\* are distinct days.
ControlResults(objects) ==
    IF \E i \in DOMAIN objects : ~ objects[i].processed
    THEN [raised |-> "AssertionError", value |-> <<>>]
    ELSE [raised |-> "none",
          value |-> << [i \in DOMAIN objects |->
                           [key |-> objects[i].key, results |-> objects[i].data[1]]] >>]

\* pd.DataFrame.from_dict(results, orient="index")
from_dict(results) ==
    [index |-> [i \in DOMAIN results |-> results[i].key],
     rows |-> [i \in DOMAIN results |-> results[i].results]]

\* variant of add_prefix: the column names are left as they are
add_prefix_none(df, prefix) ==
    [index |-> df.index,
     rows |-> [i \in DOMAIN df.rows |->
                  [c \in {<<"", n>> : n \in DOMAIN df.rows[i]} |->
                      df.rows[i][c[2]]]]]

\* DataFrame.add_prefix: a column name becomes <<prefix, name>>
add_prefix(df, prefix) ==
    [index |-> df.index,
     rows |-> [i \in DOMAIN df.rows |->
                  [c \in {<<prefix, n>> : n \in DOMAIN df.rows[i]} |->
                      df.rows[i][c[2]]]]]

RowOf(df, key) == df.rows[CHOOSE i \in DOMAIN df.index : df.index[i] = key]

\* variant of the merge: how="left", the keys of the left frame all kept
merge_left(left, right) ==
    [index |-> left.index,
     rows |-> [i \in DOMAIN left.index |->
                  IF left.index[i] \in Range(right.index)
                  THEN left.rows[i] @@ RowOf(right, left.index[i])
                  ELSE left.rows[i]]]

\* variant of the merge: the common keys in the order of the right frame
merge_right_order(left, right) ==
    LET index == SelectSeq(right.index, LAMBDA k : k \in Range(left.index))
    IN [index |-> index,
        rows |-> [i \in DOMAIN index |->
                     RowOf(left, index[i]) @@ RowOf(right, index[i])]]

\* pd.merge(left, right, left_index=True, right_index=True): inner join on
\* the index, the order of the left keys preserved
merge(left, right) ==
    LET index == SelectSeq(left.index, LAMBDA k : k \in Range(right.index))
    IN [index |-> index,
        rows |-> [i \in DOMAIN index |->
                     RowOf(left, index[i]) @@ RowOf(right, index[i])]]

\* the objects a control may hold: processed ones carry their data
SkyObjects ==
    {[key |-> k, processed |-> b,
      data |-> IF b THEN <<ProcessScene(SampleRaw).data>> ELSE <<>>] :
         k \in Keys, b \in BOOLEAN}

GroundObjects ==
    {[key |-> k, processed |-> b,
      data |-> IF b THEN <<GroundResultsDict(ProcessImage(SampleBI, SampleSI))>>
               ELSE <<>>] :
         k \in Keys, b \in BOOLEAN}

DistinctKeys(objects) ==
    \A i, j \in DOMAIN objects : i # j => objects[i].key # objects[j].key

\* sky and ground are the attributes run() assigns; results() reads whatever
\* controls they hold
InitApp ==
    /\ a_pc = "call"
    /\ a_has_sky \in BOOLEAN
    /\ a_has_ground \in BOOLEAN
    /\ a_sky \in SeqsUpTo(SkyObjects, MaxObjects)
    /\ a_ground \in SeqsUpTo(GroundObjects, MaxObjects)
    /\ DistinctKeys(a_sky)
    /\ DistinctKeys(a_ground)
    /\ (~ a_has_sky => a_sky = <<>>)
    /\ (~ a_has_ground => a_ground = <<>>)
    /\ a_as_dataframe \in BOOLEAN
    /\ a_save \in BOOLEAN
    /\ a_out = <<>>
    /\ a_saved = FALSE
    /\ a_err = "none"

\* SkyImage.results(as_dataframe, save)
AppResults ==
    /\ a_pc = "call"
    /\ a_pc' = "done"
    /\ LET as_dataframe == a_as_dataframe \/ a_save
           sky_results == ControlResults(a_sky)
           ground_results == ControlResults(a_ground)
       IN IF ~ a_has_sky \/ ~ a_has_ground
          THEN /\ a_err' = "AssertionError"
               /\ UNCHANGED <<a_out, a_saved>>
          ELSE IF sky_results.raised # "none"
          THEN /\ a_err' = sky_results.raised
               /\ UNCHANGED <<a_out, a_saved>>
          ELSE IF ground_results.raised # "none"
          THEN /\ a_err' = ground_results.raised
               /\ UNCHANGED <<a_out, a_saved>>
          ELSE IF ~ as_dataframe
          THEN /\ a_out' = << [kind |-> "dict",
                               SKY |-> sky_results.value[1],
                               GROUND |-> ground_results.value[1]] >>
               /\ UNCHANGED <<a_err, a_saved>>
          ELSE LET sky_df == add_prefix(from_dict(sky_results.value[1]), "sky_")
                   ground_df == add_prefix(from_dict(ground_results.value[1]), "grnd_")
               IN /\ a_out' = << [kind |-> "frame",
                                  combined_df |-> merge(sky_df, ground_df)] >>
                  /\ a_saved' = a_save
                  /\ UNCHANGED a_err
    /\ UNCHANGED <<a_has_sky, a_has_ground, a_sky, a_ground, a_as_dataframe, a_save>>
    /\ UNCHANGED otherThanApp

----------------------------------------------------------------------------
(* SkyControl and GroundControl over a batch of keys *)

\* bound: keys of one batch
MaxBatch == 2

\* what the sky archive holds for a key: the number of files the glob
\* matches and the window extract() reads from the file
SkyInputs ==
    { [files |-> 1, raw |-> SampleRaw],
      [files |-> 0, raw |-> SampleRaw],
      [files |-> 2, raw |-> SampleRaw],
      [files |-> 1, raw |-> EarlyRaw] }

\* what the ground archive holds for a key: the timestamps of the files the
\* glob matches and the BI, SI extract() computes from the chosen file
GroundInputs ==
    { [files |-> <<43200>>, BI |-> SampleBI, SI |-> SampleSI],
      [files |-> <<>>, BI |-> SampleBI, SI |-> SampleSI],
      [files |-> <<43200>>, BI |-> MaskedBI, SI |-> MaskedSI] }

\* variant of the scene search: the empty list is not checked and the first
\* element of the list is taken
find_matching_scene_unchecked(files) ==
    IF files = 0 THEN "IndexError"
    ELSE IF files > 1 THEN "LookupError"
    ELSE "none"

\* SkyScene.__find_matching_scene: the exception it raises
find_matching_scene(files) ==
    IF files = 0 THEN "FileNotFoundError"
    ELSE IF files > 1 THEN "LookupError"
    ELSE "none"

\* the loop of __instantiate_scene_objects from key i on: the scenes built
\* so far, or the exception of the first constructor that raises
RECURSIVE InstantiateScenes(_, _, _, _)
InstantiateScenes(keys, input, i, built) ==
    IF i > Len(keys)
    THEN [raised |-> "none", objects |-> built]
    ELSE LET e == find_matching_scene(input[keys[i]].files)
         IN IF e # "none"
            THEN [raised |-> e, objects |-> <<>>]
            ELSE InstantiateScenes(keys, input, i + 1,
                     Append(built, [key |-> keys[i], processed |-> FALSE,
                                    data |-> <<>>]))

\* the loop of instantiate_image_objects from key i on; every target is
\* 12:00 of its day
RECURSIVE InstantiateImages(_, _, _, _)
InstantiateImages(keys, input, i, built) ==
    IF i > Len(keys)
    THEN [raised |-> "none", objects |-> built]
    ELSE LET m == find_matching_image(43200, input[keys[i]].files)
         IN IF m.raised # "none"
            THEN [raised |-> m.raised, objects |-> <<>>]
            ELSE InstantiateImages(keys, input, i + 1,
                     Append(built, [key |-> keys[i], processed |-> FALSE,
                                    data |-> <<>>]))

\* the loop of SkyControl.run_all from scene i on: it ends at the first
\* scene whose run_all raises
RECURSIVE RunScenes(_, _, _)
RunScenes(objects, input, i) ==
    IF i > Len(objects)
    THEN [raised |-> "none", objects |-> objects]
    ELSE LET r == ProcessScene(input[objects[i].key].raw)
         IN IF r.raised # "none"
            THEN [raised |-> r.raised, objects |-> objects]
            ELSE RunScenes([objects EXCEPT ![i].processed = TRUE,
                                           ![i].data = <<r.data>>],
                           input, i + 1)

\* the loop of GroundControl.run_all from image i on
RECURSIVE RunImages(_, _, _)
RunImages(objects, input, i) ==
    IF i > Len(objects)
    THEN [raised |-> "none", objects |-> objects]
    ELSE LET r == ProcessImage(input[objects[i].key].BI, input[objects[i].key].SI)
         IN IF r.raised # "none"
            THEN [raised |-> r.raised, objects |-> objects]
            ELSE RunImages([objects EXCEPT ![i].processed = TRUE,
                                           ![i].data = <<GroundResultsDict(r)>>],
                           input, i + 1)

InitBatch ==
    /\ stds \in DistinctSeqs(Keys, MaxBatch)
    /\ stds # <<>>
    /\ sky_input \in [Range(stds) -> SkyInputs]
    /\ ground_input \in [Range(stds) -> GroundInputs]
    /\ k_pc = "new"
    /\ scenes = <<>>
    /\ k_err = "none"
    /\ k_out = <<>>
    /\ q_pc = "new"
    /\ images = <<>>
    /\ q_err = "none"
    /\ q_out = <<>>

\* SkyControl(stds=..., path=..., station=...)
SkyControlInit ==
    /\ k_pc = "new"
    /\ LET r == InstantiateScenes(stds, sky_input, 1, <<>>)
       IN IF r.raised # "none"
          THEN /\ k_pc' = "failed"
               /\ k_err' = r.raised
               /\ UNCHANGED scenes
          ELSE /\ k_pc' = "built"
               /\ scenes' = r.objects
               /\ UNCHANGED k_err
    /\ UNCHANGED <<stds, sky_input, ground_input, k_out, q_pc, images, q_err, q_out>>
    /\ UNCHANGED otherThanBatch

\* SkyControl.run_all()
SkyControlRunAll ==
    /\ k_pc = "built"
    /\ LET r == RunScenes(scenes, sky_input, 1)
       IN /\ scenes' = r.objects
          /\ k_err' = r.raised
    /\ k_pc' = "ran"
    /\ UNCHANGED <<stds, sky_input, ground_input, k_out, q_pc, images, q_err, q_out>>
    /\ UNCHANGED otherThanBatch

\* SkyControl.results()
SkyControlResults ==
    /\ k_pc = "ran"
    /\ LET r == ControlResults(scenes)
       IN /\ k_out' = r.value
          /\ k_err' = r.raised
    /\ k_pc' = "done"
    /\ UNCHANGED <<stds, sky_input, ground_input, scenes, q_pc, images, q_err, q_out>>
    /\ UNCHANGED otherThanBatch

\* GroundControl(stds=..., path=..., station=<Station>, coords=...)
GroundControlInit ==
    /\ q_pc = "new"
    /\ LET r == InstantiateImages(stds, ground_input, 1, <<>>)
       IN IF r.raised # "none"
          THEN /\ q_pc' = "failed"
               /\ q_err' = r.raised
               /\ UNCHANGED images
          ELSE /\ q_pc' = "built"
               /\ images' = r.objects
               /\ UNCHANGED q_err
    /\ UNCHANGED <<stds, sky_input, ground_input, k_pc, scenes, k_err, k_out, q_out>>
    /\ UNCHANGED otherThanBatch

\* GroundControl.run_all()
GroundControlRunAll ==
    /\ q_pc = "built"
    /\ LET r == RunImages(images, ground_input, 1)
       IN /\ images' = r.objects
          /\ q_err' = r.raised
    /\ q_pc' = "ran"
    /\ UNCHANGED <<stds, sky_input, ground_input, k_pc, scenes, k_err, k_out, q_out>>
    /\ UNCHANGED otherThanBatch

\* GroundControl.results(as_dataframe=False)
GroundControlResults ==
    /\ q_pc = "ran"
    /\ LET r == ControlResults(images)
       IN /\ q_out' = r.value
          /\ q_err' = r.raised
    /\ q_pc' = "done"
    /\ UNCHANGED <<stds, sky_input, ground_input, k_pc, scenes, k_err, k_out, images>>
    /\ UNCHANGED otherThanBatch

----------------------------------------------------------------------------
(* validate_datetime, SkyImage.__init__ / run, GroundControl.__init__ from days *)

(* A datetime is [year, yday, hour, minute].  A string of digits is the      *)
(* sequence of its digits; a key YYYYDDD is such a sequence.                  *)

\* bounds of the request model: length of a list of days, width of a range
MaxList == 2
MaxSpan == 2

Years == {2020, 2021}

\* day values tried as an int and as a str; a negative str is "-n"
DayChoices == {-1, 0, 1, 60, 365, 366, 367}

RangeStarts == {0, 1, 59, 364, 365}

ListDays == {0, 1, 60, 366}

\* the j_day arguments tried
JDayChoices ==
    {[type |-> "int", value |-> d] : d \in DayChoices}
        \cup {[type |-> "str", value |-> d] : d \in DayChoices}
        \cup {[type |-> "range", start |-> a, end |-> a + w] :
                  a \in RangeStarts, w \in (-1)..MaxSpan}
        \cup {[type |-> "list", days |-> l] : l \in SeqsUpTo(ListDays, MaxList)}

\* target_time arguments tried: None, "09:30", "00:05"
TargetTimeChoices ==
    {<<>>, << [hour |-> 9, minute |-> 30] >>, << [hour |-> 0, minute |-> 5] >>}

\* names of the stations file read by validate_station_positions
Stations == {"SITE"}

\* calendar of datetime
IsLeap(year) == (year % 4 = 0 /\ year % 100 # 0) \/ year % 400 = 0

DaysInYear(year) == IF IsLeap(year) THEN 366 ELSE 365

\* f"{value:0{n}}" on the digits of value: zero-padded on the left to n
\* characters, a longer string left as it is
PadDigits(digits, n) ==
    IF Len(digits) >= n THEN digits
    ELSE [i \in 1..(n - Len(digits)) |-> 0] \o digits

\* buffer_value(value, buffer_length)
buffer_value(value, buffer_length) == PadDigits(str(value), buffer_length)

\* `not j_day`: the int 0 and the empty list are false
Falsy(j_day) ==
    \/ j_day.type = "int" /\ j_day.value = 0
    \/ j_day.type = "list" /\ j_day.days = <<>>

\* variant of validate_j_day: the days 1..366
validate_j_day_1_366(j_day) == ~ (j_day < 1 \/ j_day > 366)

\* validate_j_day
validate_j_day(j_day) == ~ (j_day < 0 \/ j_day > 365)

\* lines 101-123: processed_j_day; the str "-n" splits into '' and 'n', and
\* int('') raises ValueError
processed_j_day(j_day) ==
    IF j_day.type = "int"
    THEN [raised |-> "none", days |-> <<j_day.value>>]
    ELSE IF j_day.type = "str"
    THEN IF j_day.value < 0
         THEN [raised |-> "ValueError", days |-> <<>>]
         ELSE [raised |-> "none", days |-> <<j_day.value>>]
    ELSE IF j_day.type = "range"
    THEN [raised |-> "none",
          days |-> [i \in 1..(j_day.end - j_day.start + 1) |-> j_day.start + i - 1]]
    ELSE [raised |-> "none", days |-> j_day.days]

\* datetime.strptime(s, "%Y%j") of four year digits and three day digits
strptime(date_string) ==
    LET year == DigitsValue(SubSeq(date_string, 1, 4))
        j == DigitsValue(SubSeq(date_string, 5, Len(date_string)))
    IN IF j < 1 \/ j > DaysInYear(year)
       THEN [raised |-> "ValueError"]
       ELSE [raised |-> "none",
             value |-> [year |-> year, yday |-> j, hour |-> 0, minute |-> 0]]

\* validate_datetime(j_day, year)
validate_datetime(j_day, year) ==
    LET failed == [raised |-> "ValueError", valid_j_days |-> <<>>, valid_stds |-> <<>>]
        pjd == processed_j_day(j_day)
    IN IF Falsy(j_day) \/ year = 0
       THEN failed
       ELSE IF pjd.raised # "none"
       THEN failed
       ELSE IF \E i \in DOMAIN pjd.days : ~ validate_j_day(pjd.days[i])
       THEN failed
       ELSE LET valid_j_days ==
                    [i \in DOMAIN pjd.days |-> PadDigits(str(pjd.days[i]), 3)]
                parsed == [i \in DOMAIN valid_j_days |->
                               strptime(str(year) \o valid_j_days[i])]
            IN IF \E i \in DOMAIN parsed : parsed[i].raised # "none"
               THEN failed
               ELSE [raised |-> "none",
                     valid_j_days |-> valid_j_days,
                     valid_stds |-> [i \in DOMAIN parsed |-> parsed[i].value]]

\* stds_dict[key] = value: a new key goes last, a present key keeps its place
DictSet(dict, key, value) ==
    IF \E i \in DOMAIN dict : dict[i].key = key
    THEN [i \in DOMAIN dict |->
             IF dict[i].key = key THEN [key |-> key, std |-> value] ELSE dict[i]]
    ELSE Append(dict, [key |-> key, std |-> value])

\* variant of the key: the day of the year is not padded
KeyOfUnpadded(std) == str(std.year) \o str(std.yday)

\* str(std.year) + buffer_value(std.timetuple().tm_yday, 3)
KeyOf(std) == str(std.year) \o buffer_value(std.yday, 3)

\* variant of the loop: the stds keep the time 00:00 of strptime
RECURSIVE StdsDictMidnight(_, _, _, _)
StdsDictMidnight(valid_stds, time, i, dict) ==
    IF i > Len(valid_stds)
    THEN dict
    ELSE StdsDictMidnight(valid_stds, time, i + 1,
                          DictSet(dict, KeyOf(valid_stds[i]), valid_stds[i]))

\* the loop that fills stds_dict from std i on; every std gets the hour and
\* minute of time (SkyImage keeps 00:00)
RECURSIVE StdsDict(_, _, _, _)
StdsDict(valid_stds, time, i, dict) ==
    IF i > Len(valid_stds)
    THEN dict
    ELSE StdsDict(valid_stds, time, i + 1,
                  DictSet(dict, KeyOf(valid_stds[i]),
                          [valid_stds[i] EXCEPT !.hour = time.hour,
                                                !.minute = time.minute]))

\* validate_coords(coords, selected_station, stations): a Station object is
\* no key of the stations dict
validate_coords(coords, selected_station, stations) ==
    IF coords
    THEN "none"
    ELSE IF selected_station.type = "str" /\ selected_station.name \in stations
         THEN "none"
         ELSE "KeyError"

\* the files the archives hold for a requested day
SkyFiles(archive) == IF archive = "no_sky" THEN 0 ELSE 1
GroundFiles(archive) == IF archive = "no_ground" THEN <<>> ELSE <<43200>>

\* the loop of instantiate_image_objects over the items of stds from i on;
\* GroundImage.__init__ reads station.name, which a str does not have
RECURSIVE InstantiateImageObjects(_, _, _, _, _)
InstantiateImageObjects(dict, station, archive, i, built) ==
    IF i > Len(dict)
    THEN [raised |-> "none", objects |-> built]
    ELSE IF station.type = "str"
    THEN [raised |-> "AttributeError", objects |-> <<>>]
    ELSE LET std == dict[i].std
             m == find_matching_image(std.hour * 3600 + std.minute * 60,
                                      GroundFiles(archive))
         IN IF m.raised # "none"
            THEN [raised |-> m.raised, objects |-> <<>>]
            ELSE InstantiateImageObjects(dict, station, archive, i + 1,
                     Append(built, [key |-> dict[i].key, target_time |-> std,
                                    actual_time |-> m.actual_time]))

\* the loop of __instantiate_scene_objects over the items of stds, then
\* run_all: every scene reads the window SampleRaw
RECURSIVE InstantiateSceneObjects(_, _, _, _)
InstantiateSceneObjects(dict, archive, i, built) ==
    IF i > Len(dict)
    THEN [raised |-> "none", objects |-> built]
    ELSE LET e == find_matching_scene(SkyFiles(archive))
         IN IF e # "none"
            THEN [raised |-> e, objects |-> <<>>]
            ELSE InstantiateSceneObjects(dict, archive, i + 1,
                     Append(built, [key |-> dict[i].key, target_time |-> dict[i].std]))

\* SkyControl.run_all then extract_stds: key -> actual_datetime
extract_stds(scene_objects) ==
    LET r == ProcessScene(SampleRaw)
    IN IF scene_objects # <<>> /\ r.raised # "none"
       THEN [raised |-> r.raised, stds |-> <<>>]
       ELSE [raised |-> "none",
             stds |-> [i \in DOMAIN scene_objects |->
                          [key |-> scene_objects[i].key,
                           std |-> [scene_objects[i].target_time
                                        EXCEPT !.hour = r.hour, !.minute = r.minute]]]]

InitRequest ==
    /\ r_pc = "new"
    /\ r_kind \in {"SkyImage", "GroundControl"}
    /\ r_j_day \in JDayChoices
    /\ r_year \in Years
    /\ r_archive \in {"complete", "no_ground", "no_sky"}
    /\ IF r_kind = "SkyImage"
       THEN r_target_time = <<>> /\ r_station = "str" /\ r_coords = FALSE
       ELSE /\ r_target_time \in TargetTimeChoices
            /\ r_station \in {"str", "Station"}
            /\ r_coords \in BOOLEAN
            /\ r_archive # "no_sky"
    /\ r_stds = <<>>
    /\ r_warned = FALSE
    /\ r_images = <<>>
    /\ r_sky = <<>>
    /\ r_ground = <<>>
    /\ r_err = "none"

\* SkyImage(year, j_day, station=<name>, sky_path, ground_path)
SkyImageInit ==
    /\ r_pc = "new"
    /\ r_kind = "SkyImage"
    /\ LET v == validate_datetime(r_j_day, r_year)
       IN IF v.raised # "none"
          THEN /\ r_pc' = "failed"
               /\ r_err' = v.raised
               /\ UNCHANGED r_stds
          ELSE /\ r_pc' = "built"
               /\ r_stds' = StdsDict(v.valid_stds, [hour |-> 0, minute |-> 0], 1, <<>>)
               /\ UNCHANGED r_err
    /\ UNCHANGED <<r_kind, r_j_day, r_year, r_target_time, r_station, r_coords,
                   r_archive, r_warned, r_images, r_sky, r_ground>>
    /\ UNCHANGED otherThanRequest

\* GroundControl(j_day, year, path, coords, station, target_time)
GroundControlFromDays ==
    /\ r_pc = "new"
    /\ r_kind = "GroundControl"
    /\ LET station == [type |-> r_station, name |-> "SITE"]
           c == validate_coords(r_coords, station, Stations)
           warned == (r_target_time = <<>>)
           time == IF warned THEN [hour |-> 12, minute |-> 0] ELSE r_target_time[1]
           v == validate_datetime(r_j_day, r_year)
           dict == StdsDict(v.valid_stds, time, 1, <<>>)
           imgs == InstantiateImageObjects(dict, station, r_archive, 1, <<>>)
       IN IF c # "none"
          THEN /\ r_pc' = "failed"
               /\ r_err' = c
               /\ UNCHANGED <<r_stds, r_warned, r_images>>
          ELSE IF Falsy(r_j_day)
          THEN /\ r_pc' = "failed"
               /\ r_err' = "ValueError"
               /\ UNCHANGED <<r_stds, r_warned, r_images>>
          ELSE IF v.raised # "none"
          THEN /\ r_pc' = "failed"
               /\ r_err' = v.raised
               /\ r_warned' = warned
               /\ UNCHANGED <<r_stds, r_images>>
          ELSE IF imgs.raised # "none"
          THEN /\ r_pc' = "failed"
               /\ r_err' = imgs.raised
               /\ r_warned' = warned
               /\ r_stds' = dict
               /\ UNCHANGED r_images
          ELSE /\ r_pc' = "built"
               /\ r_warned' = warned
               /\ r_stds' = dict
               /\ r_images' = imgs.objects
               /\ UNCHANGED r_err
    /\ UNCHANGED <<r_kind, r_j_day, r_year, r_target_time, r_station, r_coords,
                   r_archive, r_sky, r_ground>>
    /\ UNCHANGED otherThanRequest

\* SkyImage.run(): self.station is a Station object and no coords are passed
\* to GroundControl
SkyImageRun ==
    /\ r_pc = "built"
    /\ r_kind = "SkyImage"
    /\ LET station == [type |-> "Station", name |-> "SITE"]
           scns == InstantiateSceneObjects(r_stds, r_archive, 1, <<>>)
           matched_stds == extract_stds(scns.objects)
           c == validate_coords(FALSE, station, Stations)
           imgs == InstantiateImageObjects(matched_stds.stds, station, r_archive,
                                           1, <<>>)
       IN IF r_stds = <<>>
          THEN /\ r_err' = "ValueError"
               /\ r_pc' = "run_failed"
               /\ UNCHANGED <<r_sky, r_ground>>
          ELSE IF scns.raised # "none"
          THEN /\ r_err' = scns.raised
               /\ r_pc' = "run_failed"
               /\ UNCHANGED <<r_sky, r_ground>>
          ELSE IF matched_stds.raised # "none"
          THEN /\ r_err' = matched_stds.raised
               /\ r_pc' = "run_failed"
               /\ r_sky' = << scns.objects >>
               /\ UNCHANGED r_ground
          ELSE IF c # "none"
          THEN /\ r_err' = c
               /\ r_pc' = "run_failed"
               /\ r_sky' = << matched_stds.stds >>
               /\ UNCHANGED r_ground
          ELSE IF matched_stds.stds = <<>>
          THEN /\ r_err' = "ValueError"
               /\ r_pc' = "run_failed"
               /\ r_sky' = << matched_stds.stds >>
               /\ UNCHANGED r_ground
          ELSE IF imgs.raised # "none"
          THEN /\ r_err' = imgs.raised
               /\ r_pc' = "run_failed"
               /\ r_sky' = << matched_stds.stds >>
               /\ UNCHANGED r_ground
          ELSE /\ r_pc' = "ran"
               /\ r_sky' = << matched_stds.stds >>
               /\ r_ground' = << imgs.objects >>
               /\ UNCHANGED r_err
    /\ UNCHANGED <<r_kind, r_j_day, r_year, r_target_time, r_station, r_coords,
                   r_archive, r_stds, r_warned, r_images>>
    /\ UNCHANGED otherThanRequest

----------------------------------------------------------------------------
(* Specifications *)

NextMatch ==
    \/ FindMatchingImage
    \/ InitDirect

InitMatchSpec ==
    /\ g_pc = "new"
    /\ InitMatch
    /\ IdlePoint
    /\ IdleImage
    /\ IdleDecode
    /\ IdleScene
    /\ IdleApp
    /\ IdleBatch
    /\ IdleRequest

SpecMatch == InitMatchSpec /\ [][NextMatch]_vars

NextClassify == Classify

InitClassifySpec ==
    /\ p_pc = "call"
    /\ InitPoint
    /\ IdleMatch
    /\ IdleImage
    /\ IdleDecode
    /\ IdleScene
    /\ IdleApp
    /\ IdleBatch
    /\ IdleRequest

SpecClassify == InitClassifySpec /\ [][NextClassify]_vars

NextProcess ==
    \/ Process
    \/ Results

InitProcessSpec ==
    /\ processed = FALSE
    /\ InitImage
    /\ IdleMatch
    /\ IdlePoint
    /\ IdleDecode
    /\ IdleScene
    /\ IdleApp
    /\ IdleBatch
    /\ IdleRequest

SpecProcess == InitProcessSpec /\ [][NextProcess]_vars

NextDecode == Decode

InitDecodeSpec ==
    /\ d_pc = "call"
    /\ InitDecode
    /\ IdleMatch
    /\ IdlePoint
    /\ IdleImage
    /\ IdleScene
    /\ IdleApp
    /\ IdleBatch
    /\ IdleRequest

SpecDecode == InitDecodeSpec /\ [][NextDecode]_vars

NextScene ==
    \/ SceneProcess
    \/ SceneResults

InitSceneSpec ==
    /\ s_processed = FALSE
    /\ InitScene
    /\ IdleMatch
    /\ IdlePoint
    /\ IdleImage
    /\ IdleDecode
    /\ IdleApp
    /\ IdleBatch
    /\ IdleRequest

SpecScene == InitSceneSpec /\ [][NextScene]_vars

NextCorrelate == AppResults

InitCorrelateSpec ==
    /\ a_pc = "call"
    /\ InitApp
    /\ IdleMatch
    /\ IdlePoint
    /\ IdleImage
    /\ IdleDecode
    /\ IdleScene
    /\ IdleBatch
    /\ IdleRequest

SpecCorrelate == InitCorrelateSpec /\ [][NextCorrelate]_vars

Next ==
    \/ SkyControlInit
    \/ SkyControlRunAll
    \/ SkyControlResults
    \/ GroundControlInit
    \/ GroundControlRunAll
    \/ GroundControlResults

Init ==
    /\ k_pc = "new"
    /\ InitBatch
    /\ IdleMatch
    /\ IdlePoint
    /\ IdleImage
    /\ IdleDecode
    /\ IdleScene
    /\ IdleApp
    /\ IdleRequest

Spec == Init /\ [][Next]_vars

NextRequest ==
    \/ SkyImageInit
    \/ GroundControlFromDays
    \/ SkyImageRun

InitRequestSpec ==
    /\ r_pc = "new"
    /\ InitRequest
    /\ IdleMatch
    /\ IdlePoint
    /\ IdleImage
    /\ IdleDecode
    /\ IdleScene
    /\ IdleApp
    /\ IdleBatch

SpecRequest == InitRequestSpec /\ [][NextRequest]_vars

\* one GroundImage and one SkyScene, each taking process() and results() in
\* any order
LifecycleImages ==
    { [pc |-> "constructed", BI |-> <<>>, SI |-> <<>>],
      [pc |-> "extracted", BI |-> SampleBI, SI |-> SampleSI],
      [pc |-> "extracted", BI |-> MaskedBI, SI |-> MaskedSI],
      [pc |-> "extracted", BI |-> << <<NaN, 35>> >>, SI |-> << <<50, 50>> >>] }

LifecycleScenes ==
    { SampleRaw, EarlyRaw, [SampleRaw EXCEPT !.NPA = <<0, 0>>] }

InitLifecycle ==
    /\ processed = FALSE
    /\ \E img \in LifecycleImages : i_pc = img.pc /\ BI = img.BI /\ SI = img.SI
    /\ BI_stats = <<>>
    /\ SI_stats = <<>>
    /\ n_total = Unset
    /\ prcnt_cld = Unset
    /\ cloud_mask = <<>>
    /\ i_err = "none"
    /\ i_out = <<>>
    /\ i_out_err = "none"
    /\ raw_data \in LifecycleScenes
    /\ s_target = [hour |-> 0, minute |-> 0]
    /\ actual_datetime = <<>>
    /\ s_data = <<>>
    /\ s_processed = FALSE
    /\ s_err = "none"
    /\ s_out = <<>>
    /\ s_out_err = "none"
    /\ IdleMatch
    /\ IdlePoint
    /\ IdleDecode
    /\ IdleApp
    /\ IdleBatch
    /\ IdleRequest

NextLifecycle ==
    \/ Process
    \/ Results
    \/ SceneProcess
    \/ SceneResults

SpecLifecycle == InitLifecycle /\ [][NextLifecycle]_vars

----------------------------------------------------------------------------
(* Claims about the matching scan *)

Searched == g_pc = "matched" /\ direct_arg = None

\* C1: the image chosen by the matching scan is a candidate whose absolute
\* time distance |timestamp - target| is the minimum over all candidates of
\* the list, candidates earlier than the target included.
C1_ChosenIsNearest ==
    Searched =>
        /\ direct_path \in DOMAIN matching_file_list
        /\ matching_file_list[direct_path] = actual_time
        /\ \A j \in DOMAIN matching_file_list :
               Abs(actual_time - target_time)
                   <= Abs(matching_file_list[j] - target_time)

\* C2: of two candidates at the same absolute time distance from the target,
\* the one later in input order is never the one chosen.
C2_FirstOfTiedWins ==
    Searched =>
        \A i, j \in DOMAIN matching_file_list :
            (/\ i < j
             /\ Abs(matching_file_list[i] - target_time)
                    = Abs(matching_file_list[j] - target_time))
            => direct_path # j

\* C3: after a successful match the recorded time_delta is
\* |actual_time - target_time| in seconds, for a later and for an earlier image.
C3_DeltaIsAbsoluteDistance ==
    Searched => time_delta = Abs(actual_time - target_time)

\* C19: a search over a non-empty candidate list completes whatever the
\* winning delta is (no exception; direct_path, actual_time and time_delta
\* are those of the chosen candidate), and a warning is emitted exactly when
\* the chosen candidate is more than 7200 seconds away from the target.
C19_WarningIffWinnerBeyondTwoHours ==
    (g_pc # "new" /\ direct_arg = None /\ matching_file_list # <<>>) =>
        /\ g_pc = "matched"
        /\ g_err = "none"
        /\ direct_path \in DOMAIN matching_file_list
        /\ actual_time = matching_file_list[direct_path]
        /\ g_warned <=> (Abs(actual_time - target_time) > WarnSeconds)

----------------------------------------------------------------------------
(* Claims about f_above_or_below *)

\* indices of the vertices whose y is strictly less than the point's y
BelowVertices == {i \in DOMAIN p_boundary :
                      p_point[2] # NaN /\ p_boundary[i][2] < p_point[2]}

FirstBelow == CHOOSE i \in BelowVertices : \A j \in BelowVertices : i <= j

XInRange ==
    /\ p_point[1] # NaN
    /\ \E i \in DOMAIN p_boundary : p_boundary[i][1] <= p_point[1]
    /\ \E i \in DOMAIN p_boundary : p_boundary[i][1] >= p_point[1]

\* C4: for a point whose x lies within the boundary's x range the result is 1
\* exactly when some vertex has y strictly below the point's y and the point's
\* x is at least the x of the first such vertex; otherwise it is 0.
C4_OneIffAtOrRightOfFirstBelow ==
    (p_pc = "done" /\ XInRange) =>
        /\ p_err = "none"
        /\ p_result \in {0, 1}
        /\ (p_result = 1) <=>
               (/\ BelowVertices # {}
                /\ p_point[1] >= p_boundary[FirstBelow][1])

\* the tie case of C4: x equal to the x of the first vertex below, result 1
C4_Witness ==
    /\ p_pc = "done"
    /\ XInRange
    /\ BelowVertices # {}
    /\ p_point[1] = p_boundary[FirstBelow][1]
    /\ p_result = 1

\* C6: a point whose x is below the smallest or above the largest boundary x
\* fails with a domain error and returns no label, whatever its y; a point
\* whose x is inside the closed range, end points included, raises no error.
C6_DomainErrorIffOutside ==
    (p_pc = "done" /\ p_point[1] # NaN) =>
        /\ (p_err = "ValueError") <=> ~ XInRange
        /\ (p_err = "none") <=> XInRange
        /\ (p_err = "ValueError") => p_result = None

\* an end point of the canonical range that is accepted
C6_Witness ==
    /\ p_pc = "done"
    /\ p_boundary = CanonicalBoundary
    /\ p_point[1] = 100
    /\ p_err = "none"
    /\ p_result # None

\* a point with y = 0.2 and an x of the range has been classified against
\* the canonical boundary
CanonicalAtPointTwo ==
    /\ p_pc = "done"
    /\ p_boundary = CanonicalBoundary
    /\ p_point[2] = 20
    /\ XInRange

\* C26 as stated: with the canonical boundary and a point with y = 0.2, the
\* first vertex in scan order whose y is strictly less than 0.2, whose x is
\* x_b, is the vertex at x = 0.8: the point is labelled 1 exactly from
\* x = 0.8 on.
C26_FirstVertexBelowIsAtEightTenths ==
    CanonicalAtPointTwo =>
        /\ p_boundary[FirstBelow][1] = 80
        /\ (p_result = 1) <=> (p_point[1] >= 80)

\* C26 amended: the first vertex whose y is strictly less than 0.2 is the
\* vertex (0.7, 0.15), so x_b = 0.7: the point is labelled 1 exactly from
\* x = 0.7 on.
C26_FirstVertexBelowIsAtSevenTenths ==
    CanonicalAtPointTwo =>
        /\ p_boundary[FirstBelow][1] = 70
        /\ p_boundary[FirstBelow][2] = 15
        /\ (p_result = 1) <=> (p_point[1] >= 70)

\* the point (0.75, 0.2), between the two vertices, is labelled 1
C26_Witness ==
    /\ CanonicalAtPointTwo
    /\ p_point[1] = 75
    /\ p_result = 1

----------------------------------------------------------------------------
(* Claims about GroundImage.process *)

Positions == {<<r, c>> \in (DOMAIN BI) \X (1..MaxCols + 1) : c \in DOMAIN BI[r]}

\* vertices of the canonical boundary whose y is strictly below the SI of
\* the pixel at pos
BelowOf(pos) ==
    {k \in DOMAIN CanonicalBoundary :
         /\ SI[pos[1]][pos[2]] # NaN
         /\ CanonicalBoundary[k][2] < SI[pos[1]][pos[2]]}

x_b(pos) ==
    CanonicalBoundary[CHOOSE k \in BelowOf(pos) : \A j \in BelowOf(pos) : k <= j][1]

BothValid(pos) == BI[pos[1]][pos[2]] # NaN /\ SI[pos[1]][pos[2]] # NaN

\* the rule of the spec: CLEAR when no vertex is below the SI or BI < x_b
LabelledClear(pos) ==
    \/ BelowOf(pos) = {}
    \/ BI[pos[1]][pos[2]] < x_b(pos)

\* the pixels for which f_above_or_below returns 1: a vertex below the SI
\* and a BI that is not less than x_b
ReturnsOne(pos) ==
    /\ BelowOf(pos) # {}
    /\ ~ (BI[pos[1]][pos[2]] # NaN /\ BI[pos[1]][pos[2]] < x_b(pos))

ValidPixels == {pos \in Positions : BothValid(pos)}
ClearPixels == {pos \in ValidPixels : LabelledClear(pos)}
OnePixels == {pos \in Positions : ReturnsOne(pos)}

\* the number of non-NaN BI values plus the number of non-NaN SI values
ValidEntries ==
    Cardinality({pos \in Positions : BI[pos[1]][pos[2]] # NaN})
        + Cardinality({pos \in Positions : SI[pos[1]][pos[2]] # NaN})

ProcessActed == i_pc = "extracted" /\ (processed \/ i_err # "none")

\* the valid pixels for which f_above_or_below returns 1
ValidOnePixels == {pos \in ValidPixels : ReturnsOne(pos)}

\* C11: n_total of a processed image is the number of pixels whose BI and SI
\* are both non-NaN, and a pixel with NaN in either channel adds to neither
\* valid_pixel_count nor clear_count: prcnt_cld is computed from the valid
\* pixels alone.
C11_NaNPixelsAreNotCounted ==
    processed =>
        /\ n_total = Cardinality(ValidPixels)
        /\ (ValidPixels # {}) =>
               prcnt_cld = RoundHalfEven(
                               (Cardinality(ValidPixels) - Cardinality(ValidOnePixels))
                                   * 10000,
                               Cardinality(ValidPixels))

\* C12: in the cloud mask every pixel whose BI or SI is NaN holds, at its own
\* position, a value that is neither of the two labels 0 and 1.
C12_NaNPixelsAreUnclassified ==
    processed =>
        \A pos \in Positions :
            ~ BothValid(pos) => cloud_mask[pos[1]][pos[2]] \notin {0, 1}

\* C13: the cloud mask has the shape of BI, and its entry at row i, column j
\* is the label of the pixel (BI[i][j], SI[i][j]).
C13_MaskKeepsShapeAndPositions ==
    processed =>
        /\ Len(cloud_mask) = Len(BI)
        /\ \A r \in DOMAIN BI :
               /\ Len(cloud_mask[r]) = Len(BI[r])
               /\ \A c \in DOMAIN BI[r] :
                      cloud_mask[r][c] = IF ReturnsOne(<<r, c>>) THEN 1 ELSE 0

\* a processed image of two rows and two columns whose two off-diagonal
\* pixels have different labels
C13_Witness ==
    /\ processed
    /\ Len(BI) = 2
    /\ Len(BI[1]) = 2
    /\ ReturnsOne(<<1, 2>>)
    /\ ~ ReturnsOne(<<2, 1>>)
    /\ cloud_mask[1][2] = 1
    /\ cloud_mask[2][1] = 0

\* C17: for every image with at least one valid pixel, whatever the mix of
\* NaN and non-NaN values, prcnt_cld lies within [0, 100] (0..10000
\* hundredths of a percent).
C17_PercentCloudWithinRange ==
    (processed /\ ValidPixels # {}) => (prcnt_cld >= 0 /\ prcnt_cld <= 10000)

AllNaN(array) == \A r \in DOMAIN array : \A c \in DOMAIN array[r] : array[r][c] = NaN

\* C18: when every entry of BI or of SI is NaN, process() fails with an error
\* and the image gets neither BI_stats nor SI_stats.
C18_AllNaNStatisticsFail ==
    (ProcessActed /\ (AllNaN(BI) \/ AllNaN(SI))) =>
        /\ ~ processed
        /\ i_err # "none"
        /\ BI_stats = <<>>
        /\ SI_stats = <<>>

----------------------------------------------------------------------------
(* Claims about the bit-field decoding *)

\* floor(v / 2^n) on the halves, 0 <= n < BitWidth
ShiftRight(v, n) ==
    IF n < HalfWidth
    THEN [hi |-> v.hi \div Pow2(n),
          lo |-> (v.lo \div Pow2(n)) + (v.hi % Pow2(n)) * Pow2(HalfWidth - n)]
    ELSE [hi |-> 0, lo |-> v.hi \div Pow2(n - HalfWidth)]

\* v mod 2^n on the halves, 1 <= n <= BitWidth
ModPow2(v, n) ==
    IF n <= HalfWidth
    THEN [hi |-> 0, lo |-> v.lo % Pow2(n)]
    ELSE [hi |-> v.hi % Pow2(n - HalfWidth), lo |-> v.lo]

InWidth == d_start <= d_end /\ d_end <= BitWidth - 1

\* C7: for every 32-bit value v and every bit range with
\* 0 <= start_bit <= end_bit <= 31 the decoded sub-field is
\* floor(v / 2^start_bit) mod 2^(end_bit - start_bit + 1).
C7_DecodedFieldIsShiftAndMask ==
    (d_pc = "done" /\ InWidth) =>
        /\ d_err = "none"
        /\ d_result = << ModPow2(ShiftRight(d_value, d_start), d_end - d_start + 1) >>

\* a range that straddles the two halves and includes bit 31 of a value with
\* bit 31 set has been decoded
C7_Witness ==
    /\ d_pc = "done"
    /\ d_start = 12
    /\ d_end = 31
    /\ d_value = [hi |-> 42435, lo |-> 32768]
    /\ d_result = << [hi |-> 10, lo |-> 23608] >>

\* C14: for every bit range with 0 <= start_bit <= end_bit and end_bit >= 32
\* the decoding fails with ValueError and produces no sub-field value.
C14_RangeBeyondWidthFails ==
    (d_pc = "done" /\ d_start <= d_end /\ d_end >= BitWidth) =>
        /\ d_err = "ValueError"
        /\ d_result = <<>>

\* the sub-field of the decoded value under mapping m of NUM_MAPPINGS
DecodedField(m) ==
    AsInt(DecodeField(d_value, NUM_MAPPINGS[m].start_bit,
                      NUM_MAPPINGS[m].end_bit).value[1])

BitsOf(m) == NUM_MAPPINGS[m].start_bit..NUM_MAPPINGS[m].end_bit

\* C30: with the canonical NUM_MAPPINGS table the four decoded fields of a
\* 32-bit value v each lie in 0..255 and recombine to v,
\* CLD + 2^8 * CLD_SHDW + 2^16 * ADJ_CLD + 2^24 * SNW = v (stated on the two
\* 16-bit halves of v): the four bit ranges partition the 32 bits.
C30_FieldsRecombineToValue ==
    (d_pc = "done") =>
        /\ \A m \in DOMAIN NUM_MAPPINGS :
               /\ DecodeField(d_value, NUM_MAPPINGS[m].start_bit,
                              NUM_MAPPINGS[m].end_bit).raised = "none"
               /\ DecodedField(m) \in 0..255
               /\ (d_start = NUM_MAPPINGS[m].start_bit /\ d_end = NUM_MAPPINGS[m].end_bit)
                      => d_result = << [hi |-> 0, lo |-> DecodedField(m)] >>
        /\ NUM_MAPPINGS[1].k = "CLD"
        /\ NUM_MAPPINGS[2].k = "CLD_SHDW"
        /\ NUM_MAPPINGS[3].k = "ADJ_CLD"
        /\ NUM_MAPPINGS[4].k = "SNW"
        /\ DecodedField(1) + Pow2(8) * DecodedField(2) = d_value.lo
        /\ DecodedField(3) + Pow2(8) * DecodedField(4) = d_value.hi
        /\ UNION {BitsOf(m) : m \in DOMAIN NUM_MAPPINGS} = 0..(BitWidth - 1)
        /\ \A m, n \in DOMAIN NUM_MAPPINGS : m # n => BitsOf(m) \cap BitsOf(n) = {}

\* the CLD_SHDW field (bits 8-15) of 0xA5C38000 has been decoded: 0x80
C30_Witness ==
    /\ d_pc = "done"
    /\ d_value = [hi |-> 42435, lo |-> 32768]
    /\ d_start = 8
    /\ d_end = 15
    /\ d_result = << [hi |-> 0, lo |-> 128] >>

----------------------------------------------------------------------------
(* Claims about SkyScene.process *)

\* the sum of f[i] over the index set S
RECURSIVE SumOver(_, _)
SumOver(S, f) ==
    IF S = {} THEN 0
    ELSE LET i == CHOOSE j \in S : TRUE IN f[i] + SumOver(S \ {i}, f)

\* the sub-field of a pixel by arithmetic: floor(v / 2^start) mod 2^width
FieldOf(pixel, f) ==
    AsInt(ModPow2(ShiftRight(pixel, f.start_bit), f.end_bit - f.start_bit + 1))

Reverse(seq) == [i \in DOMAIN seq |-> seq[Len(seq) + 1 - i]]

\* C8: after process the value accumulated for each field is the sum over all
\* pixels of the pixel's decoded sub-field, and the totals are those of the
\* same pixels taken in the opposite order.
C8_TotalsAreSumsOverPixels ==
    s_processed =>
        /\ \A m \in DOMAIN NUM_MAPPINGS :
               s_data[1][NUM_MAPPINGS[m].k]
                   = SumOver(DOMAIN raw_data.CRNM,
                             [i \in DOMAIN raw_data.CRNM |->
                                  FieldOf(raw_data.CRNM[i], NUM_MAPPINGS[m])])
        /\ [k \in FieldNames |-> s_data[1][k]]
               = DecodeAccumulate([k \in FieldNames |-> 0], Reverse(raw_data.CRNM), 1)

\* three pixels, not all alike, whose cloud counts add up beyond one field
C8_Witness ==
    /\ s_processed
    /\ Len(raw_data.CRNM) = 3
    /\ raw_data.CRNM[1] # raw_data.CRNM[3]
    /\ s_data[1]["CLD"] > 255
    /\ s_data[1]["SNW"] > 0

\* process() has run past the granule time of the scene
SceneProcessActed ==
    /\ s_processed \/ s_err # "none"
    /\ GranuleTime(raw_data.CRGT).raised = "none"

\* C15: when the sum of NPA over the pixels of a scene is zero, process()
\* fails with a division error: no percentage is produced and the scene is
\* not marked processed.
C15_ZeroTotalFails ==
    (SceneProcessActed /\ SeqSum(raw_data.NPA) = 0) =>
        /\ s_err = "ZeroDivisionError"
        /\ ~ s_processed
        /\ s_data = <<>>

\* C16: for every processed scene with a non-zero total each prcnt_<field>
\* lies within [0, 100] (0..10000 hundredths of a percent).
C16_PercentWithinRange ==
    (s_processed /\ SeqSum(raw_data.NPA) # 0) =>
        \A c \in PrcntNames : s_data[1][c] >= 0 /\ s_data[1][c] <= 10000

\* C28: for every granule time HHMM obtained as the mode of the CRGT layer,
\* process() sets actual_datetime to the target's date with hour HH and
\* minute MM, also for a time before 10:00, whose number has fewer than 4
\* digits.
C28_GranuleTimeIsHourAndMinute ==
    (s_processed \/ s_err # "none") =>
        LET hhmm == ModeFirstColumn(raw_data.CRGT)
        IN /\ s_err = "none"
           /\ actual_datetime
                  = << [s_target EXCEPT !.hour = hhmm \div 100,
                                        !.minute = hhmm % 100] >>

----------------------------------------------------------------------------
(* Claims about SkyImage.results *)

KeysOf(objects) == {objects[i].key : i \in DOMAIN objects}

AllProcessed(objects) == \A i \in DOMAIN objects : objects[i].processed

CombinedRequested ==
    /\ a_pc = "done"
    /\ a_as_dataframe \/ a_save
    /\ a_has_sky /\ a_has_ground
    /\ AllProcessed(a_sky) /\ AllProcessed(a_ground)

\* C9: the combined table holds exactly the keys present in both the platform
\* results and the ground results; a key of one side only is absent and no
\* error is raised.
C9_CombinedKeysAreIntersection ==
    CombinedRequested =>
        /\ a_err = "none"
        /\ a_out # <<>>
        /\ a_out[1].kind = "frame"
        /\ Range(a_out[1].combined_df.index) = KeysOf(a_sky) \cap KeysOf(a_ground)
        /\ Len(a_out[1].combined_df.index)
               = Cardinality(KeysOf(a_sky) \cap KeysOf(a_ground))

\* platform keys {2020100}, ground keys {2020100, 2020101}: only 2020100
C9_Witness ==
    /\ CombinedRequested
    /\ KeysOf(a_sky) = {2020100}
    /\ KeysOf(a_ground) = {2020100, 2020101}
    /\ a_out # <<>>
    /\ a_out[1].combined_df.index = <<2020100>>

\* the results dict an object of a control holds under key
DataOf(objects, key) ==
    objects[CHOOSE i \in DOMAIN objects : objects[i].key = key].data[1]

\* C21: in each record of the combined table every platform-side field is
\* under the prefix sky_ and every ground-side field under the prefix grnd_,
\* each with the value of its own side: the columns of a record are the
\* disjoint union of the two prefixed field sets.
C21_FieldsArePrefixedBySide ==
    CombinedRequested =>
        \A i \in DOMAIN a_out[1].combined_df.index :
            LET key == a_out[1].combined_df.index[i]
                row == a_out[1].combined_df.rows[i]
                sky == DataOf(a_sky, key)
                grnd == DataOf(a_ground, key)
            IN /\ DOMAIN row = {<<"sky_", n>> : n \in DOMAIN sky}
                                   \cup {<<"grnd_", n>> : n \in DOMAIN grnd}
               /\ \A n \in DOMAIN sky : row[<<"sky_", n>>] = sky[n]
               /\ \A n \in DOMAIN grnd : row[<<"grnd_", n>>] = grnd[n]
               /\ Cardinality(DOMAIN row)
                      = Cardinality(DOMAIN sky) + Cardinality(DOMAIN grnd)

\* a combined record carrying the platform's n_TOTAL and the ground's n_total
C21_Witness ==
    /\ CombinedRequested
    /\ a_out # <<>>
    /\ a_out[1].combined_df.index # <<>>
    /\ a_out[1].combined_df.rows[1][<<"sky_", "n_TOTAL">>] = 400
    /\ a_out[1].combined_df.rows[1][<<"grnd_", "n_total">>] = 2

\* position of key in the insertion order of a control's objects
PositionOf(objects, key) == CHOOSE i \in DOMAIN objects : objects[i].key = key

\* C22: the keys of the combined table follow the insertion order of the
\* platform-side results, restricted to the keys the ground side also has,
\* whatever the order of the ground-side results.
C22_OrderIsPlatformOrder ==
    CombinedRequested =>
        LET index == a_out[1].combined_df.index
        IN /\ Range(index) = KeysOf(a_sky) \cap KeysOf(a_ground)
           /\ \A i, j \in DOMAIN index :
                  i < j => PositionOf(a_sky, index[i]) < PositionOf(a_sky, index[j])

\* two common keys that the two sides hold in opposite orders
C22_Witness ==
    /\ CombinedRequested
    /\ Len(a_sky) = 2
    /\ Len(a_ground) = 2
    /\ a_sky[1].key = a_ground[2].key
    /\ a_sky[2].key = a_ground[1].key
    /\ a_out # <<>>
    /\ a_out[1].combined_df.index = <<a_sky[1].key, a_sky[2].key>>

----------------------------------------------------------------------------
(* Claims about a batch of keys *)

\* the key's own scene is found, unique, and processes without an exception
SkyKeyIsSound(key) ==
    /\ find_matching_scene(sky_input[key].files) = "none"
    /\ ProcessScene(sky_input[key].raw).raised = "none"

\* the key's own image is found and processes without an exception
GroundKeyIsSound(key) ==
    /\ find_matching_image(43200, ground_input[key].files).raised = "none"
    /\ ProcessImage(ground_input[key].BI, ground_input[key].SI).raised = "none"

ResultKeys(out) ==
    IF out = <<>> THEN {} ELSE {out[1][i].key : i \in DOMAIN out[1]}

\* C10: once a control has been built, run and asked for its results, every
\* key of the batch that resolves and processes without failure has its
\* results, whatever happened to the other keys.
C10_FailureOfOneKeyIsIsolated ==
    /\ k_pc \in {"failed", "done"} =>
           \A i \in DOMAIN stds :
               SkyKeyIsSound(stds[i]) => stds[i] \in ResultKeys(k_out)
    /\ q_pc \in {"failed", "done"} =>
           \A i \in DOMAIN stds :
               GroundKeyIsSound(stds[i]) => stds[i] \in ResultKeys(q_out)

\* the constructor loop reaches key i: every earlier key has exactly one
\* scene file, respectively at least one image file
SkyReaches(i) == \A j \in 1..(i - 1) : sky_input[stds[j]].files = 1
GroundReaches(i) == \A j \in 1..(i - 1) : ground_input[stds[j]].files # <<>>

\* C20: when the search for a requested day finds no candidate file, it
\* fails with FileNotFoundError, in the scene search and in the image search
\* alike, and no object with a direct_path comes out of the constructor.
C20_NoCandidateIsNotFound ==
    /\ (/\ k_pc # "new"
        /\ \E i \in DOMAIN stds : SkyReaches(i) /\ sky_input[stds[i]].files = 0)
           => (k_pc = "failed" /\ k_err = "FileNotFoundError" /\ scenes = <<>>)
    /\ (/\ q_pc # "new"
        /\ \E i \in DOMAIN stds :
               GroundReaches(i) /\ ground_input[stds[i]].files = <<>>)
           => (q_pc = "failed" /\ q_err = "FileNotFoundError" /\ images = <<>>)

\* both constructors have met a day without a file, after a day with one
C20_Witness ==
    /\ Len(stds) = 2
    /\ sky_input[stds[1]].files = 1
    /\ sky_input[stds[2]].files = 0
    /\ ground_input[stds[1]].files # <<>>
    /\ ground_input[stds[2]].files = <<>>
    /\ k_pc = "failed"
    /\ k_err = "FileNotFoundError"
    /\ q_pc = "failed"
    /\ q_err = "FileNotFoundError"

----------------------------------------------------------------------------
(* Claims about the requested days *)

\* the days a request names, in request order
RequestedDays ==
    IF r_j_day.type \in {"int", "str"} THEN <<r_j_day.value>>
    ELSE IF r_j_day.type = "range"
    THEN [i \in 1..(r_j_day.end - r_j_day.start + 1) |-> r_j_day.start + i - 1]
    ELSE r_j_day.days

FirstIndex(seq, d) ==
    CHOOSE i \in DOMAIN seq : seq[i] = d /\ \A j \in 1..(i - 1) : seq[j] # d

\* C23: the target set of a request is keyed by the year followed by the
\* zero-padded 3-digit day of the year, has exactly one entry per distinct
\* requested day, and iterates in request order (ascending for a range).
C23_TargetsAreKeyedByYearAndDay ==
    (r_kind = "SkyImage" /\ r_pc \notin {"new", "failed"}) =>
        /\ \A i \in DOMAIN r_stds :
               /\ Len(r_stds[i].key) = 7
               /\ DigitsValue(SubSeq(r_stds[i].key, 1, 4)) = r_year
               /\ DigitsValue(SubSeq(r_stds[i].key, 5, 7)) = r_stds[i].std.yday
               /\ r_stds[i].std.year = r_year
        /\ {r_stds[i].std.yday : i \in DOMAIN r_stds} = Range(RequestedDays)
        /\ Len(r_stds) = Cardinality(Range(RequestedDays))
        /\ \A i, j \in DOMAIN r_stds :
               i < j => FirstIndex(RequestedDays, r_stds[i].std.yday)
                            < FirstIndex(RequestedDays, r_stds[j].std.yday)
        /\ (r_j_day.type = "range") =>
               \A i, j \in DOMAIN r_stds :
                   i < j => r_stds[i].std.yday < r_stds[j].std.yday

\* the list [60, 1] of 2020 gives the keys 2020060, 2020001 in that order
C23_Witness ==
    /\ r_kind = "SkyImage"
    /\ r_pc = "built"
    /\ r_j_day = [type |-> "list", days |-> <<60, 1>>]
    /\ r_year = 2020
    /\ Len(r_stds) = 2
    /\ r_stds[1].key = <<2, 0, 2, 0, 0, 6, 0>>
    /\ r_stds[2].key = <<2, 0, 2, 0, 0, 0, 1>>

\* C24: a request for a single day is accepted when the day is one of
\* 1..366 that exists in the year (366 in a leap year), and a day outside
\* 1..366 is rejected with ValueError and gives no target instant.
C24_DaysOneTo366Accepted ==
    (r_kind = "SkyImage" /\ r_pc # "new" /\ r_j_day.type \in {"int", "str"}) =>
        /\ (r_j_day.value \in 1..DaysInYear(r_year)) =>
               (r_pc # "failed" /\ Len(r_stds) = 1)
        /\ (r_j_day.value < 1 \/ r_j_day.value > 366) =>
               (r_pc = "failed" /\ r_err = "ValueError" /\ r_stds = <<>>)

\* C25: ground targets built from days without a time of day all get 12:00
\* and the default-time warning is emitted; with a time 'HH:MM' they all get
\* that hour and minute and the warning is not emitted.
C25_DefaultTimeIsNoon ==
    (r_kind = "GroundControl" /\ r_pc # "new") =>
        LET time == IF r_target_time = <<>> THEN [hour |-> 12, minute |-> 0]
                    ELSE r_target_time[1]
        IN /\ \A i \in DOMAIN r_stds :
                  r_stds[i].std.hour = time.hour /\ r_stds[i].std.minute = time.minute
           /\ \A i \in DOMAIN r_images :
                  /\ r_images[i].target_time.hour = time.hour
                  /\ r_images[i].target_time.minute = time.minute
           /\ r_warned => r_target_time = <<>>
           /\ (r_stds # <<>> /\ r_target_time = <<>>) => r_warned

\* a control built without target_time: two images with the target 12:00
C25_Witness ==
    /\ r_kind = "GroundControl"
    /\ r_pc = "built"
    /\ r_target_time = <<>>
    /\ r_warned
    /\ Len(r_images) = 2
    /\ r_images[1].target_time.hour = 12
    /\ r_images[2].target_time.minute = 0

----------------------------------------------------------------------------
(* Claims about the life cycle of a GroundImage and a SkyScene *)

\* results() has returned data only from a processed object, and an object
\* that is not processed has none of its result fields
ResultsNeedProcessed ==
    /\ (i_out # <<>>) => processed
    /\ (i_out_err # "none") => (i_out_err = "AssertionError" /\ i_out = <<>>)
    /\ (~ processed) =>
           /\ BI_stats = <<>>
           /\ SI_stats = <<>>
           /\ n_total = Unset
           /\ prcnt_cld = Unset
    /\ (i_err # "none") => ~ processed
    /\ (s_out # <<>>) => s_processed
    /\ (s_out_err # "none") => (s_out_err = "AssertionError" /\ s_out = <<>>)
    /\ (~ s_processed) => s_data = <<>>
    /\ (s_err # "none") => ~ s_processed

\* processed changes only from False to True, together with the result
\* fields and without an exception; results() raises AssertionError exactly
\* on an object that is not processed
ProcessedOnlyBySuccess ==
    /\ processed => processed'
    /\ (~ processed /\ processed') =>
           /\ i_err' = "none"
           /\ BI_stats' # <<>>
           /\ SI_stats' # <<>>
           /\ n_total' # Unset
           /\ prcnt_cld' # Unset
    /\ (i_out' # i_out \/ i_out_err' # i_out_err) =>
           IF processed
           THEN i_out' # <<>> /\ i_out_err' = "none"
           ELSE i_out' = <<>> /\ i_out_err' = "AssertionError"
    /\ s_processed => s_processed'
    /\ (~ s_processed /\ s_processed') => (s_err' = "none" /\ s_data' # <<>>)
    /\ (s_out' # s_out \/ s_out_err' # s_out_err) =>
           IF s_processed
           THEN s_out' # <<>> /\ s_out_err' = "none"
           ELSE s_out' = <<>> /\ s_out_err' = "AssertionError"

\* C27: over any sequence of process() and results() calls on a GroundImage
\* or a SkyScene, processed is False from construction and becomes True only
\* with a successful process(); a process() that raises leaves processed False
\* and the result fields unset; results() raises AssertionError and returns
\* no data unless the object is processed.
C27_ResultsOnlyAfterSuccessfulProcess ==
    /\ ~ processed
    /\ ~ s_processed
    /\ []ResultsNeedProcessed
    /\ [][ProcessedOnlyBySuccess]_vars

\* a scene whose process() raised and whose results() then raised, beside
\* an image that was processed and returned its results
C27_Witness ==
    /\ processed
    /\ i_out # <<>>
    /\ s_err # "none"
    /\ ~ s_processed
    /\ s_out_err = "AssertionError"

====
